---- MODULE Spec2Model ----
(***************************************************************************)
(* Verification model of the caesar date/time core: GPSTime (a 128-bit     *)
(* picosecond time point with calendar accessors), DateTime (broken-down   *)
(* components with an ISO-8601 string codec) and the TimeDelta rounding    *)
(* family trunc / floor / ceil / round.                                    *)
(*                                                                         *)
(* A GPSTime tick count does not fit the integers of the model checker, so *)
(* a tick count is held in three limbs                                     *)
(*     count = hi * 86400e12 + mid * 1e9 + lo,  0 <= mid < 86400e3,        *)
(*                                              0 <= lo  < 1e9             *)
(* and every operation of std::chrono on it is carried out on the limbs.   *)
(* The 128-bit range (about +-1.7e38 ticks) is far outside every value the *)
(* limbs hold, so no operation on limbs overflows.  abs(TimeDelta), whose  *)
(* behaviour at TimeDelta::min() depends on the width, is modelled apart   *)
(* on 128 two's complement bits.  The error library (ErrorCode, its        *)
(* categories and Expected) is modelled by SpecError.                      *)
(***************************************************************************)
EXTENDS Integers, Sequences, FiniteSets, TLC

VARIABLES
    t,      \* GPS: the GPSTime object, <<time_point_>>, or <<>> when there is none
    ret,    \* GPS: the GPSTime returned by the last call, <<tp>> or <<>>
    exc,    \* GPS: exception thrown by the last call, or "none"
    call,   \* GPS: name of the last call
    args,   \* GPS: component arguments of the last constructor call, or <<>>
    prev,   \* GPS: the object as it was before the last call, <<tp>> or <<>>
    arg,    \* GPS: TimeDelta or time point argument of the last call, <<rep>> or <<>>
    nops,   \* GPS: number of operators applied to the object so far
    dto,    \* DateTime: the DateTime object, <<components_>>, or <<>>
    str,    \* DateTime: the text at hand, a sequence of characters
    parsed, \* DateTime: the object DateTime(str) built, <<components_>>, or <<>>
    rd,     \* TimeDelta: tick count of the duration being rounded
    rp,     \* TimeDelta: tick count of the period
    res,    \* TimeDelta: result of each rounding function, <<count>> or <<>>
    res2,   \* TimeDelta: result of applying it again to its own result
    other,  \* DateTime: a second DateTime object, <<components_>>, or <<>>
    cmp,    \* the answers of the comparison operators, or <<>> before they are asked
    td,     \* TimeDelta: the TimeDelta object, <<duration_>>, or <<>>
    unit,   \* TimeDelta: unit of the std::chrono::duration at hand
    cnt,    \* TimeDelta: count of the std::chrono::duration given, <<n>> or <<>>
    back,   \* TimeDelta: count of the std::chrono::duration converted to, <<n>> or <<>>
    flags,  \* stream: the format flags set on the output stream
    out,    \* stream: the characters written to the output stream
    dd,     \* TimeDelta: tick count of the dividend
    dn,     \* TimeDelta: the divisor
    dres,   \* TimeDelta: result of each division operator, <<count>> or <<>>
    code1,  \* error: the ErrorCode object error_code1, <<code>>, or <<>>
    code2,  \* error: the ErrorCode object error_code2, <<code>>, or <<>>
    result  \* error: the Expected object at hand, <<expected>>, or <<>>

gpsvars == <<t, ret, prev, arg, nops>>

dtvars == <<dto, str, parsed>>

tdvars == <<rd, rp, res, res2>>

cmpvars == <<other, cmp, code1, code2, result>>

opvars == <<td, unit, cnt, back, flags, out, dd, dn, dres>>

vars == <<t, ret, exc, call, args, prev, arg, nops, dto, str, parsed, rd, rp, res, res2,
          other, cmp, td, unit, cnt, back, flags, out, dd, dn, dres, code1, code2, result>>

---------------------------------------------------------------------------
(* C++ integer division and remainder (truncation toward zero). *)

(* a division that rounds toward minus infinity *)
FloorDiv(a, b) == IF b > 0 THEN a \div b ELSE (-a) \div (-b)

TDiv(a, b) ==
    IF (a >= 0) = (b > 0) \/ a = 0
    THEN (IF a >= 0 THEN a ELSE -a) \div (IF b >= 0 THEN b ELSE -b)
    ELSE -((IF a >= 0 THEN a ELSE -a) \div (IF b >= 0 THEN b ELSE -b))

TRem(a, b) == a - b * TDiv(a, b)

---------------------------------------------------------------------------
(* The 128-bit tick count (Rep) in limbs. *)

PsPerMs == 1000 * 1000 * 1000

MsPerDay == 86400 * 1000

Norm(hi, mid, lo) ==
    LET m2 == mid + (lo \div PsPerMs)
    IN  [hi |-> hi + (m2 \div MsPerDay), mid |-> m2 % MsPerDay, lo |-> lo % PsPerMs]

RepAdd(a, b) == Norm(a.hi + b.hi, a.mid + b.mid, a.lo + b.lo)

RepNeg(a) == Norm(-a.hi, -a.mid, -a.lo)

RepSub(a, b) == RepAdd(a, RepNeg(b))

RepLess(a, b) ==
    \/ a.hi < b.hi
    \/ a.hi = b.hi /\ a.mid < b.mid
    \/ a.hi = b.hi /\ a.mid = b.mid /\ a.lo < b.lo

(* std::chrono::duration<Rep, unit>(n) converted to the tick period. *)
Days(n) == Norm(n, 0, 0)

Hours(n) == Norm(0, n * 3600000, 0)

Minutes(n) == Norm(0, n * 60000, 0)

Seconds(n) == Norm(0, n * 1000, 0)

Microsecs(n) == Norm(0, n \div 1000, (n % 1000) * 1000000)

Picosecs(n) == Norm(0, 0, n)

Duration(n) == Norm(0, 0, n)

---------------------------------------------------------------------------
(* The calendar algorithms of the date library that GPSTime calls. *)

is_leap(y) == y % 4 = 0 /\ (y % 100 # 0 \/ y % 400 = 0)

(* a last day of month that knows only the rule of every fourth year *)
last_day_in_month_julian(y, m) ==
    IF m # 2 \/ y % 4 # 0
    THEN <<31, 28, 31, 30, 31, 30, 31, 31, 30, 31, 30, 31>>[m]
    ELSE 29

(* date::year_month_day_last(y, month_day_last(m)).day() *)
last_day_in_month(y, m) ==
    IF m # 2 \/ ~is_leap(y)
    THEN <<31, 28, 31, 30, 31, 30, 31, 31, 30, 31, 30, 31>>[m]
    ELSE 29

(* date::local_days(year_month_day): days since 1970-01-01 *)
days_from_civil(y0, m, d) ==
    LET y   == IF m <= 2 THEN y0 - 1 ELSE y0
        era == TDiv(IF y >= 0 THEN y ELSE y - 399, 400)
        yoe == y - era * 400
        doy == ((153 * (IF m > 2 THEN m - 3 ELSE m + 9) + 2) \div 5) + d - 1
        doe == yoe * 365 + (yoe \div 4) - (yoe \div 100) + doy
    IN  era * 146097 + doe - 719468

(* date::year_month_day(local_days): the civil date of a day number *)
civil_from_days(z0) ==
    LET z   == z0 + 719468
        era == TDiv(IF z >= 0 THEN z ELSE z - 146096, 146097)
        doe == z - era * 146097
        yoe == (doe - (doe \div 1460) + (doe \div 36524) - (doe \div 146096)) \div 365
        y   == yoe + era * 400
        doy == doe - (365 * yoe + (yoe \div 4) - (yoe \div 100))
        mp  == (5 * doy + 2) \div 153
        d   == doy - ((153 * mp + 2) \div 5) + 1
        m   == IF mp < 10 THEN mp + 3 ELSE mp - 9
    IN  [year |-> IF m <= 2 THEN y + 1 ELSE y, month |-> m, day |-> d]

(* gps_clock epoch 1980-01-06 relative to 1970-01-01, in days *)
GpsEpochDays == days_from_civil(1980, 1, 6) - days_from_civil(1970, 1, 1)

---------------------------------------------------------------------------
(* GPSTime: construction. A constructor yields [exc, val]: the exception   *)
(* it throws ("none" when it returns) and the time_point_ of the object    *)
(* built, <<tp>>, or <<>> when it threw and no object exists.              *)

Thrown(e) == [exc |-> e, val |-> <<>>]

Built(tp) == [exc |-> "none", val |-> <<tp>>]

(* As GPSTimeFromComponents, with the hour checked by > in place of >= *)
GPSTimeFromComponents_hour24(Y, M, D, h, m, s, us, ps) ==
    IF Y < 1 \/ Y > 9999 THEN Thrown("invalid_argument")
    ELSE IF M < 1 \/ M > 12 THEN Thrown("invalid_argument")
    ELSE IF D < 1 \/ D > last_day_in_month(Y, M) THEN Thrown("invalid_argument")
    ELSE IF h < 0 \/ h > 24 THEN Thrown("invalid_argument")
    ELSE IF m < 0 \/ m >= 60 THEN Thrown("invalid_argument")
    ELSE IF s < 0 \/ s >= 60 THEN Thrown("invalid_argument")
    ELSE IF us < 0 \/ us >= 1000000 THEN Thrown("invalid_argument")
    ELSE IF ps < 0 \/ ps >= 1000000 THEN Thrown("invalid_argument")
    ELSE Built(RepAdd(Days(days_from_civil(Y, M, D) - GpsEpochDays),
                      RepAdd(RepAdd(RepAdd(RepAdd(Hours(h), Minutes(m)), Seconds(s)),
                                    Microsecs(us)), Picosecs(ps))))

GPSTimeFromComponents(Y, M, D, h, m, s, us, ps) ==
    IF Y < 1 \/ Y > 9999 THEN Thrown("invalid_argument")
    ELSE IF M < 1 \/ M > 12 THEN Thrown("invalid_argument")
    ELSE IF D < 1 \/ D > last_day_in_month(Y, M) THEN Thrown("invalid_argument")
    ELSE IF h < 0 \/ h >= 24 THEN Thrown("invalid_argument")
    ELSE IF m < 0 \/ m >= 60 THEN Thrown("invalid_argument")
    ELSE IF s < 0 \/ s >= 60 THEN Thrown("invalid_argument")
    ELSE IF us < 0 \/ us >= 1000000 THEN Thrown("invalid_argument")
    ELSE IF ps < 0 \/ ps >= 1000000 THEN Thrown("invalid_argument")
    ELSE LET unix_days == days_from_civil(Y, M, D)
             gps_days == unix_days - GpsEpochDays
             since_midnight ==
                 RepAdd(RepAdd(RepAdd(RepAdd(Hours(h), Minutes(m)), Seconds(s)),
                               Microsecs(us)), Picosecs(ps))
         IN  Built(RepAdd(Days(gps_days), since_midnight))

GPSTimeMin == GPSTimeFromComponents(1, 1, 1, 0, 0, 0, 0, 0).val[1]

GPSTimeMax == GPSTimeFromComponents(9999, 12, 31, 23, 59, 59, 999999, 999999).val[1]

(* As GPSTimeFromTimePoint, throwing std::invalid_argument *)
GPSTimeFromTimePoint_invalid(tp) ==
    IF RepLess(tp, GPSTimeMin) \/ RepLess(GPSTimeMax, tp)
    THEN Thrown("invalid_argument")
    ELSE Built(tp)

GPSTimeFromTimePoint(tp) ==
    IF RepLess(tp, GPSTimeMin) \/ RepLess(GPSTimeMax, tp)
    THEN Thrown("out_of_range")
    ELSE Built(tp)

(* DateTime(year, ..., millisecond, microsecond, nanosecond, picosecond) *)
DateTimeFromComponents(Y, M, D, h, m, s, ms, us, ns, ps) ==
    IF Y < 1 \/ Y > 9999 THEN Thrown("invalid_argument")
    ELSE IF M < 1 \/ M > 12 THEN Thrown("invalid_argument")
    ELSE IF D < 1 \/ D > last_day_in_month(Y, M) THEN Thrown("invalid_argument")
    ELSE IF h < 0 \/ h >= 24 THEN Thrown("invalid_argument")
    ELSE IF m < 0 \/ m >= 60 THEN Thrown("invalid_argument")
    ELSE IF s < 0 \/ s >= 60 THEN Thrown("invalid_argument")
    ELSE IF ms < 0 \/ ms >= 1000 THEN Thrown("invalid_argument")
    ELSE IF us < 0 \/ us >= 1000 THEN Thrown("invalid_argument")
    ELSE IF ns < 0 \/ ns >= 1000 THEN Thrown("invalid_argument")
    ELSE IF ps < 0 \/ ps >= 1000 THEN Thrown("invalid_argument")
    ELSE Built(<<Y, M, D, h, m, s, ms, us, ns, ps>>)

---------------------------------------------------------------------------
(* GPSTime: accessors. *)

(* duration_cast<date::days> of a tick count: truncation toward zero *)
TruncDays(tp) == IF tp.hi < 0 /\ (tp.mid # 0 \/ tp.lo # 0) THEN tp.hi + 1 ELSE tp.hi

(* std::chrono::floor<date::days> of a tick count: the day limb, because   *)
(* the lower limbs are never negative.                                     *)
FloorDays(tp) == tp.hi

date(tp) ==
    LET unix_time == RepAdd(tp, Days(GpsEpochDays))
        unix_days == FloorDays(unix_time)
    IN  civil_from_days(unix_days)

(* date::hh_mm_ss<Duration> of the ticks since midnight *)
time_of_day(tp) ==
    LET d  == RepSub(tp, Days(FloorDays(tp)))
        hh == d.mid \div 3600000
        mm == (d.mid - hh * 3600000) \div 60000
        ss == (d.mid - hh * 3600000 - mm * 60000) \div 1000
    IN  [hours |-> hh, minutes |-> mm, seconds |-> ss,
         subseconds |-> Norm(0, d.mid - hh * 3600000 - mm * 60000 - ss * 1000, d.lo)]

year(tp) == date(tp).year

month(tp) == date(tp).month

day(tp) == date(tp).day

hour(tp) == time_of_day(tp).hours

minute(tp) == time_of_day(tp).minutes

second(tp) == time_of_day(tp).seconds

(* As microsecond, rounding to the nearest microsecond *)
microsecond_rounded(tp) ==
    LET ss == time_of_day(tp).subseconds
    IN  ss.mid * 1000 + ((ss.lo + 500000) \div 1000000)

(* duration_cast<Microsecs>(ss): ss is below one second and not negative *)
microsecond(tp) ==
    LET ss == time_of_day(tp).subseconds
    IN  ss.mid * 1000 + (ss.lo \div 1000000)

picosecond(tp) ==
    LET ss == time_of_day(tp).subseconds
        us == ss.mid * 1000 + (ss.lo \div 1000000)
    IN  RepSub(ss, Microsecs(us)).lo

(* As Weekday, with the remainder of the day number taken as C++ takes it  *)
(* for every day number, those before 1969-12-28 included                  *)
Weekday_truncated(y, m, d) ==
    TRem(days_from_civil(y, m, d) + 4, 7)

(* DateTime::weekday(): date::weekday(date::sys_days(date())), encoded    *)
(* 0 = Sunday ... 6 = Saturday                                             *)
Weekday(y, m, d) ==
    LET z == days_from_civil(y, m, d)
    IN  IF z >= -4 THEN TRem(z + 4, 7) ELSE TRem(z + 5, 7) + 6

(* GPSTime::weekday() *)
weekday(tp) ==
    LET ymd == date(tp)
    IN  Weekday(ymd.year, ymd.month, ymd.day)

Components(tp) ==
    <<year(tp), month(tp), day(tp), hour(tp), minute(tp), second(tp),
      microsecond(tp), picosecond(tp)>>

---------------------------------------------------------------------------
(* GPSTime: the life of one object. *)

MaxOps == 2

(* Component tuples handed to the constructor: the ends of the valid       *)
(* range, the GPS epoch, instants next to a carry or borrow through every  *)
(* field, and tuples the constructor must refuse.                          *)
SmallGrid ==
    { <<1, 1, 1, 0, 0, 0, 0, 0>>,
      <<9999, 12, 31, 23, 59, 59, 999999, 999999>>,
      <<1980, 1, 6, 0, 0, 0, 0, 0>>,
      <<1969, 12, 31, 23, 59, 59, 999999, 999999>>,
      <<2001, 1, 1, 0, 0, 0, 0, 0>>,
      <<2000, 2, 29, 23, 59, 59, 999999, 999999>>,
      <<2000, 1, 2, 3, 4, 5, 6, 7>>,
      <<900, 8, 7, 6, 5, 4, 3, 2>>,
      <<2001, 2, 3, 4, 5, 6, 7, 999999>>,
      <<0, 12, 31, 23, 59, 59, 999999, 999999>>,
      <<10000, 1, 1, 0, 0, 0, 0, 0>>,
      <<2001, 2, 29, 0, 0, 0, 0, 0>>,
      <<2000, 1, 1, 24, 0, 0, 0, 0>> }

(* TimeDelta operands of += , -= , + and - *)
DeltaArgs ==
    { Picosecs(1), Microsecs(1), Seconds(86399), Days(1), Days(366),
      RepNeg(Picosecs(1)),
      RepAdd(RepAdd(RepAdd(RepAdd(Days(12), Minutes(34)), Seconds(56)),
                    Microsecs(78)), Picosecs(90)) }

(* Time points handed to GPSTime(const TimePoint&) and compared against *)
TimePoints ==
    { GPSTimeMin, RepSub(GPSTimeMin, Duration(1)),
      GPSTimeMax, RepAdd(GPSTimeMax, Duration(1)),
      Duration(0), RepNeg(Duration(1)),
      RepAdd(RepAdd(Hours(1), Minutes(2)), Seconds(3)),
      RepAdd(Days(7300), Microsecs(999999)) }

(* Readings of date::gps_clock::now(), the host clock *)
ClockReadings ==
    { RepAdd(Days(15035), Seconds(18)), RepAdd(Days(17102), Picosecs(123456789)) }

GPSInit ==
    /\ t = <<>>
    /\ ret = <<>>
    /\ exc = "none"
    /\ call = "init"
    /\ args = <<>>
    /\ prev = <<>>
    /\ arg = <<>>
    /\ nops = 0

DTInit ==
    /\ dto = <<>>
    /\ str = <<>>
    /\ parsed = <<>>

Functions == {"trunc", "floor", "ceil", "round"}

TDInit ==
    /\ rd = 0
    /\ rp = 1
    /\ res = [f \in Functions |-> <<>>]
    /\ res2 = [f \in Functions |-> <<>>]

CmpInit ==
    /\ other = <<>>
    /\ cmp = <<>>
    /\ code1 = <<>>
    /\ code2 = <<>>
    /\ result = <<>>

DivOps == {"/", "%", "%dt", "/=", "%=", "%=dt", "(d/n)*n+d%n"}

OpInit ==
    /\ td = <<>>
    /\ unit = "none"
    /\ cnt = <<>>
    /\ back = <<>>
    /\ flags = {}
    /\ out = <<>>
    /\ dd = 0
    /\ dn = 1
    /\ dres = [o \in DivOps |-> <<>>]

Fresh == t = <<>> /\ call = "init"

Alive == t # <<>> /\ nops < MaxOps

(* GPSTime(year, month, day, hour, minute, second, microsecond, picosecond) *)
ConstructFrom(grid) ==
    /\ Fresh
    /\ \E c \in grid :
          LET r == GPSTimeFromComponents(c[1], c[2], c[3], c[4], c[5], c[6], c[7], c[8])
          IN  /\ t' = r.val
              /\ ret' = r.val
              /\ exc' = r.exc
              /\ args' = c
    /\ call' = "GPSTime"
    /\ UNCHANGED <<prev, arg, nops, dtvars, tdvars, cmpvars, opvars>>

Construct == ConstructFrom(SmallGrid)

(* explicit GPSTime(const TimePoint&) *)
ConstructTimePoint ==
    /\ Fresh
    /\ \E tp \in TimePoints :
          LET r == GPSTimeFromTimePoint(tp)
          IN  /\ t' = r.val
              /\ ret' = r.val
              /\ exc' = r.exc
              /\ arg' = <<tp>>
    /\ call' = "GPSTime_time_point"
    /\ UNCHANGED <<args, prev, nops, dtvars, tdvars, cmpvars, opvars>>

(* GPSTime::now() *)
Now ==
    /\ Fresh
    /\ \E tp \in ClockReadings :
          LET r == GPSTimeFromTimePoint(tp)
          IN  /\ t' = r.val
              /\ ret' = r.val
              /\ exc' = r.exc
              /\ arg' = <<tp>>
    /\ call' = "now"
    /\ UNCHANGED <<args, prev, nops, dtvars, tdvars, cmpvars, opvars>>

(* An operator that updates the object in place and returns *this. *)
InPlace(name, tp, a) ==
    /\ t' = <<tp>>
    /\ ret' = <<tp>>
    /\ exc' = "none"
    /\ call' = name
    /\ prev' = t
    /\ arg' = a
    /\ nops' = nops + 1
    /\ UNCHANGED <<args, dtvars, tdvars, cmpvars, opvars>>

(* An operator that leaves the object alone and returns a GPSTime built    *)
(* by constructor result r.                                                *)
ByValue(name, r, a) ==
    /\ ret' = r.val
    /\ exc' = r.exc
    /\ call' = name
    /\ prev' = t
    /\ arg' = a
    /\ nops' = nops + 1
    /\ UNCHANGED <<t, args, dtvars, tdvars, cmpvars, opvars>>

PreIncrement == Alive /\ InPlace("++t", RepAdd(t[1], Duration(1)), <<>>)

PostIncrement ==
    Alive /\ ByValue("t++", GPSTimeFromTimePoint(RepAdd(t[1], Duration(1))), <<>>)

PreDecrement == Alive /\ InPlace("--t", RepSub(t[1], Duration(1)), <<>>)

PostDecrement ==
    Alive /\ ByValue("t--", GPSTimeFromTimePoint(RepSub(t[1], Duration(1))), <<>>)

AddAssign == Alive /\ \E d \in DeltaArgs : InPlace("t+=dt", RepAdd(t[1], d), <<d>>)

SubAssign == Alive /\ \E d \in DeltaArgs : InPlace("t-=dt", RepSub(t[1], d), <<d>>)

(* operator+(GPSTime, TimeDelta): a copy of lhs, then += *)
Plus == Alive /\ \E d \in DeltaArgs : ByValue("t+dt", Built(RepAdd(t[1], d)), <<d>>)

(* operator-(GPSTime, TimeDelta): a copy of lhs, then -= *)
Minus == Alive /\ \E d \in DeltaArgs : ByValue("t-dt", Built(RepSub(t[1], d)), <<d>>)

(* operator<(GPSTime, GPSTime) against a second object holding tp *)
Compare ==
    /\ Alive
    /\ \E tp \in TimePoints :
          /\ GPSTimeFromTimePoint(tp).exc = "none"
          /\ arg' = <<tp>>
    /\ call' = "t<u"
    /\ ret' = <<>>
    /\ exc' = "none"
    /\ prev' = t
    /\ nops' = nops + 1
    /\ UNCHANGED <<t, args, dtvars, tdvars, cmpvars, opvars>>

(* The object goes out of scope, or the exception is caught. *)
Destroy ==
    /\ call # "init"
    /\ t' = <<>>
    /\ ret' = <<>>
    /\ exc' = "none"
    /\ call' = "init"
    /\ args' = <<>>
    /\ prev' = <<>>
    /\ arg' = <<>>
    /\ nops' = 0
    /\ dto' = <<>>
    /\ str' = <<>>
    /\ parsed' = <<>>
    /\ other' = <<>>
    /\ cmp' = <<>>
    /\ code1' = <<>>
    /\ code2' = <<>>
    /\ result' = <<>>
    /\ UNCHANGED <<tdvars, opvars>>

Init == GPSInit /\ DTInit /\ TDInit /\ CmpInit /\ OpInit

Next ==
    \/ Construct
    \/ ConstructTimePoint
    \/ Now
    \/ PreIncrement
    \/ PostIncrement
    \/ PreDecrement
    \/ PostDecrement
    \/ AddAssign
    \/ SubAssign
    \/ Plus
    \/ Minus
    \/ Compare
    \/ Destroy

Spec == Init /\ [][Next]_vars

---------------------------------------------------------------------------
(* Construction from components over a grid of calendar fields. *)

Years == {0, 1, 4, 100, 1900, 1920, 1969, 1970, 1979, 1980, 2000, 2001, 2021, 9999, 10000}

Months == 0 .. 13

DaysOfMonth == {0, 1, 28, 29, 30, 31, 32}

Clock3 ==
    { <<0, 0, 0>>, <<23, 59, 59>>, <<3, 4, 5>>, <<-1, 0, 0>>, <<24, 0, 0>>,
      <<0, -1, 0>>, <<0, 60, 0>>, <<0, 0, -1>>, <<0, 0, 60>>, <<24, 60, 60>> }

(* microsecond, picosecond of GPSTime *)
Sub2 ==
    { <<0, 0>>, <<999999, 999999>>, <<6, 7>>, <<-1, 0>>, <<1000000, 0>>,
      <<0, -1>>, <<0, 1000000>> }

(* millisecond, microsecond, nanosecond, picosecond of DateTime *)
Sub4 ==
    { <<0, 0, 0, 0>>, <<999, 999, 999, 999>>, <<6, 7, 8, 9>>,
      <<-1, 0, 0, 0>>, <<1000, 0, 0, 0>>, <<0, -1, 0, 0>>, <<0, 1000, 0, 0>>,
      <<0, 0, -1, 0>>, <<0, 0, 1000, 0>>, <<0, 0, 0, -1>>, <<0, 0, 0, 1000>> }

ClockGrid == {c \o u : c \in Clock3, u \in Sub2}

BigGrid == {<<y, m, d>> \o c : y \in Years, m \in Months, d \in DaysOfMonth, c \in ClockGrid}

DateGrid == {<<y, m, d>> : y \in {0, 1, 1900, 2000, 2001, 9999, 10000},
                           m \in {0, 1, 2, 4, 12, 13}, d \in DaysOfMonth}
                \cup { <<1969, 12, 31>>, <<1970, 1, 1>>, <<1920, 2, 29>>, <<1920, 3, 1>>,
                       <<2021, 4, 3>> }

DateTimeGrid == {g \o c \o u : g \in DateGrid, c \in Clock3, u \in Sub4}

ConstructBig == ConstructFrom(BigGrid)

DateTimeConstructFrom(grid) ==
    /\ Fresh
    /\ \E c \in grid :
          LET r == DateTimeFromComponents(c[1], c[2], c[3], c[4], c[5], c[6],
                                          c[7], c[8], c[9], c[10])
          IN  /\ dto' = r.val
              /\ exc' = r.exc
              /\ args' = c
    /\ call' = "DateTime"
    /\ UNCHANGED <<gpsvars, str, parsed, tdvars, cmpvars, opvars>>

DateTimeConstructBig == DateTimeConstructFrom(DateTimeGrid)

NextComponents ==
    \/ ConstructBig
    \/ DateTimeConstructBig
    \/ Destroy

SpecComponents == Init /\ [][NextComponents]_vars

---------------------------------------------------------------------------
(* DateTime: the string codec. A text is a sequence of one-character       *)
(* strings, the NUL-terminated text the constructor reads.                 *)

Digits == <<"0", "1", "2", "3", "4", "5", "6", "7", "8", "9">>

IsDigit(c) == \E v \in 1 .. 10 : Digits[v] = c

DigitVal(c) == (CHOOSE v \in 1 .. 10 : Digits[v] = c) - 1

Zeros(k) == [i \in 1 .. k |-> "0"]

RECURSIVE Dec(_)
(* the decimal digits of n >= 0 *)
Dec(n) == IF n < 10 THEN <<Digits[n + 1]>> ELSE Dec(n \div 10) \o <<Digits[(n % 10) + 1]>>

(* fmt::format("{:0<width>d}", n): sign, then zeros up to the width, then  *)
(* the digits; a number wider than the width is written in full.           *)
fmt_d(n, width) ==
    LET sign == IF n < 0 THEN <<"-">> ELSE <<>>
        body == Dec(IF n < 0 THEN -n ELSE n)
        pad  == width - Len(sign) - Len(body)
    IN  sign \o Zeros(IF pad > 0 THEN pad ELSE 0) \o body

(* std::string::find_last_not_of(ch): the last index whose character is    *)
(* not ch, counted from 1; 0 stands for npos.                              *)
find_last_not_of(s, ch) ==
    LET I == {i \in 1 .. Len(s) : s[i] # ch}
    IN  IF I = {} THEN 0 ELSE CHOOSE i \in I : \A j \in I : j <= i

trim(s) ==
    LET n == find_last_not_of(s, "0")
    IN  IF n = 0 THEN s ELSE SubSeq(s, 1, n)

(* DateTime::operator std::string on the components c *)
DateTimeToString(c) ==
    LET ymdhms_str ==
            fmt_d(c[1], 4) \o <<"-">> \o fmt_d(c[2], 2) \o <<"-">> \o fmt_d(c[3], 2)
            \o <<"T">> \o fmt_d(c[4], 2) \o <<":">> \o fmt_d(c[5], 2) \o <<":">>
            \o fmt_d(c[6], 2)
        ss_str == fmt_d(c[7], 3) \o fmt_d(c[8], 3) \o fmt_d(c[9], 3) \o fmt_d(c[10], 3)
    IN  IF c[7] = 0 /\ c[8] = 0 /\ c[9] = 0 /\ c[10] = 0
        THEN ymdhms_str
        ELSE ymdhms_str \o <<".">> \o trim(ss_str)

AllDigits(s, from, to) == to <= Len(s) /\ \A i \in from .. to : IsDigit(s[i])

(* As regex_match, with the sub-second group written \d+ *)
regex_match_unbounded(s) ==
    LET head == /\ Len(s) >= 19
                /\ AllDigits(s, 1, 4) /\ s[5] = "-" /\ AllDigits(s, 6, 7)
                /\ s[8] = "-" /\ AllDigits(s, 9, 10)
                /\ s[11] \in {"T", " "}
                /\ AllDigits(s, 12, 13) /\ s[14] = ":" /\ AllDigits(s, 15, 16)
                /\ s[17] = ":" /\ AllDigits(s, 18, 19)
        tail == \/ Len(s) = 19
                \/ /\ Len(s) >= 21 /\ s[20] = "."
                   /\ AllDigits(s, 21, Len(s))
    IN  [ok |-> head /\ tail,
         sub |-> IF head /\ tail /\ Len(s) > 19 THEN SubSeq(s, 21, Len(s)) ELSE <<>>]

(* std::regex_match of the whole text against                              *)
(*   (\d{4}-\d{2}-\d{2})(T| )(\d{2}:\d{2}:\d{2})(\.(\d{1,12}))?            *)
(* ok: whether it matches; sub: the text of group 5. Groups 1 and 3 start  *)
(* at characters 1 and 12.                                                 *)
regex_match(s) ==
    LET head == /\ Len(s) >= 19
                /\ AllDigits(s, 1, 4) /\ s[5] = "-" /\ AllDigits(s, 6, 7)
                /\ s[8] = "-" /\ AllDigits(s, 9, 10)
                /\ s[11] \in {"T", " "}
                /\ AllDigits(s, 12, 13) /\ s[14] = ":" /\ AllDigits(s, 15, 16)
                /\ s[17] = ":" /\ AllDigits(s, 18, 19)
        tail == \/ Len(s) = 19
                \/ /\ Len(s) >= 21 /\ Len(s) <= 32 /\ s[20] = "."
                   /\ AllDigits(s, 21, Len(s))
    IN  [ok |-> head /\ tail,
         sub |-> IF head /\ tail /\ Len(s) > 19 THEN SubSeq(s, 21, Len(s)) ELSE <<>>]

(* The number of digits a %<w>d conversion reads at position pos. *)
DigitRun(s, pos, w) ==
    LET K == {k \in 0 .. w : AllDigits(s, pos, pos + k - 1)}
    IN  CHOOSE k \in K : \A j \in K : j <= k

RECURSIVE ValOf(_, _, _)
ValOf(s, pos, k) ==
    IF k = 0 THEN 0 ELSE ValOf(s, pos, k - 1) * 10 + DigitVal(s[pos + k - 1])

(* std::sscanf(s + pos, "%<w1>d<sep>%<w2>d<sep>%<w3>d", &a, &b, &c) with   *)
(* a, b, c set to 0 beforehand: scanning stops at the first conversion or  *)
(* separator that does not match.                                          *)
sscanf3(s, pos, w1, sep, w2, w3) ==
    LET k1 == DigitRun(s, pos, w1)
        p2 == pos + k1
        k2 == DigitRun(s, p2 + 1, w2)
        p3 == p2 + 1 + k2
        k3 == DigitRun(s, p3 + 1, w3)
    IN  IF k1 = 0 THEN <<0, 0, 0>>
        ELSE IF p2 > Len(s) \/ s[p2] # sep \/ k2 = 0 THEN <<ValOf(s, pos, k1), 0, 0>>
        ELSE IF p3 > Len(s) \/ s[p3] # sep \/ k3 = 0
             THEN <<ValOf(s, pos, k1), ValOf(s, p2 + 1, k2), 0>>
        ELSE <<ValOf(s, pos, k1), ValOf(s, p2 + 1, k2), ValOf(s, p3 + 1, k3)>>

(* std::sscanf(s, "%3d%3d%3d%3d", &ms, &us, &ns, &ps), all 0 beforehand *)
sscanf4(s) ==
    LET k1 == DigitRun(s, 1, 3)
        k2 == DigitRun(s, 1 + k1, 3)
        k3 == DigitRun(s, 1 + k1 + k2, 3)
        k4 == DigitRun(s, 1 + k1 + k2 + k3, 3)
    IN  IF k1 = 0 THEN <<0, 0, 0, 0>>
        ELSE IF k2 = 0 THEN <<ValOf(s, 1, k1), 0, 0, 0>>
        ELSE IF k3 = 0 THEN <<ValOf(s, 1, k1), ValOf(s, 1 + k1, k2), 0, 0>>
        ELSE IF k4 = 0
             THEN <<ValOf(s, 1, k1), ValOf(s, 1 + k1, k2), ValOf(s, 1 + k1 + k2, k3), 0>>
        ELSE <<ValOf(s, 1, k1), ValOf(s, 1 + k1, k2), ValOf(s, 1 + k1 + k2, k3),
               ValOf(s, 1 + k1 + k2 + k3, k4)>>

(* As zeropad, with the zeros put in front *)
zeropad_left(s, length) ==
    IF Len(s) >= length THEN SubSeq(s, 1, length) ELSE Zeros(length - Len(s)) \o s

(* out = str; out.resize(length, '0') *)
zeropad(s, length) ==
    IF Len(s) >= length THEN SubSeq(s, 1, length) ELSE s \o Zeros(length - Len(s))

(* As DateTimeFromString, keeping the fields as they were read *)
DateTimeFromString_unchecked(s) ==
    LET match == regex_match(s)
        ymd == sscanf3(s, 1, 4, "-", 2, 2)
        hms == sscanf3(s, 12, 2, ":", 2, 2)
        ss  == IF Len(match.sub) > 0 THEN sscanf4(zeropad(match.sub, 12))
               ELSE <<0, 0, 0, 0>>
    IN  IF ~match.ok THEN Thrown("invalid_argument")
        ELSE Built(ymd \o hms \o ss)

(* DateTime(std::string_view datetime_str) *)
DateTimeFromString(s) ==
    LET match == regex_match(s)
        ymd == sscanf3(s, 1, 4, "-", 2, 2)
        hms == sscanf3(s, 12, 2, ":", 2, 2)
        ss  == IF Len(match.sub) > 0 THEN sscanf4(zeropad(match.sub, 12))
               ELSE <<0, 0, 0, 0>>
    IN  IF ~match.ok THEN Thrown("invalid_argument")
        ELSE DateTimeFromComponents(ymd[1], ymd[2], ymd[3], hms[1], hms[2], hms[3],
                                    ss[1], ss[2], ss[3], ss[4])

(* DateTime values turned into text *)
StringGrid ==
    { g \o u :
        g \in { <<1, 1, 1, 0, 0, 0>>, <<9999, 12, 31, 23, 59, 59>>,
                <<2000, 1, 2, 3, 4, 5>>, <<2020, 3, 20, 23, 50, 59>> },
        u \in { <<0, 0, 0, 0>>, <<6, 7, 8, 9>>, <<999, 999, 999, 999>>,
                <<500, 0, 0, 0>>, <<0, 0, 0, 1>>, <<678, 900, 0, 0>>,
                <<0, 10, 0, 0>>, <<120, 0, 0, 0>>, <<0, 0, 100, 0>> } }

(* Texts that come from elsewhere *)
Literals ==
    { <<"a", "s", "d", "f">>,
      <<"2", "0", "0", "0", "-", "1", "-", "1">>,
      <<"2", "0", "0", "0", "-", "1", "-", "1", "T", "0", ":", "0", ":", "0">>,
      <<"2", "0", "0", "1", "-", "0", "2", "-", "0", "3", "*",
        "0", "4", ":", "0", "5", ":", "0", "6", ".", "7", "8">>,
      <<"2", "0", "0", "1", "-", "0", "2", "-", "0", "3", " ",
        "0", "4", ":", "0", "5", ":", "0", "6", ".", "7", "8">>,
      <<"2", "0", "0", "1", "-", "0", "2", "-", "2", "9", "T",
        "0", "4", ":", "0", "5", ":", "0", "6">>,
      <<"0", "0", "0", "0", "-", "0", "1", "-", "0", "1", "T",
        "0", "0", ":", "0", "0", ":", "0", "0">>,
      <<"2", "0", "0", "1", "-", "0", "0", "-", "0", "3", "T",
        "0", "4", ":", "0", "5", ":", "0", "6">>,
      <<"2", "0", "0", "1", "-", "1", "3", "-", "0", "3", "T",
        "0", "4", ":", "0", "5", ":", "0", "6">>,
      <<"2", "0", "0", "1", "-", "0", "2", "-", "0", "0", " ",
        "0", "4", ":", "0", "5", ":", "0", "6">>,
      <<"2", "0", "0", "1", "-", "0", "2", "-", "0", "3", "T",
        "2", "4", ":", "0", "0", ":", "0", "0">>,
      <<"2", "0", "0", "1", "-", "0", "2", "-", "0", "3", "T",
        "2", "3", ":", "6", "0", ":", "0", "0">>,
      <<"2", "0", "0", "1", "-", "0", "2", "-", "0", "3", " ",
        "2", "3", ":", "5", "9", ":", "6", "0", ".", "5">>,
      <<>> }

Alphabet == {"0", "7", "-", ":", "T", " ", ".", "x"}

(* The texts one keystroke away from s *)
Edits(s) ==
    {SubSeq(s, 1, i - 1) \o SubSeq(s, i + 1, Len(s)) : i \in 1 .. Len(s)}
    \cup {[s EXCEPT ![i] = c] : i \in 1 .. Len(s), c \in Alphabet}
    \cup {SubSeq(s, 1, i - 1) \o <<c>> \o SubSeq(s, i, Len(s)) :
              i \in 1 .. (Len(s) + 1), c \in Alphabet}

DateTimeConstruct == DateTimeConstructFrom(StringGrid)

(* std::string(dto) *)
ConvertToString ==
    /\ call = "DateTime" /\ dto # <<>>
    /\ str' = DateTimeToString(dto[1])
    /\ call' = "string"
    /\ UNCHANGED <<gpsvars, exc, args, dto, parsed, tdvars, cmpvars, opvars>>

(* The text is altered before it is read back. *)
Edit ==
    /\ call = "string"
    /\ \E e \in Edits(str) : e # str /\ str' = e
    /\ call' = "edit"
    /\ nops' = nops + 1
    /\ UNCHANGED <<t, ret, prev, arg, exc, args, dto, parsed, tdvars, cmpvars, opvars>>

Literal ==
    /\ Fresh
    /\ \E e \in Literals : str' = e
    /\ call' = "literal"
    /\ nops' = nops + 1
    /\ UNCHANGED <<t, ret, prev, arg, exc, args, dto, parsed, tdvars, cmpvars, opvars>>

(* DateTime(str) *)
FromString ==
    /\ call \in {"string", "edit", "literal"}
    /\ LET r == DateTimeFromString(str)
       IN  parsed' = r.val /\ exc' = r.exc
    /\ call' = "DateTime_string"
    /\ UNCHANGED <<gpsvars, args, dto, str, tdvars, cmpvars, opvars>>

NextString ==
    \/ DateTimeConstruct
    \/ ConvertToString
    \/ Edit
    \/ Literal
    \/ FromString
    \/ Destroy

SpecString == Init /\ [][NextString]_vars

---------------------------------------------------------------------------
(* GPSTime: the text form. *)

(* GPSTime::operator std::string on the time point tp *)
GPSTimeToString(tp) ==
    LET ymdhms_string ==
            fmt_d(year(tp), 4) \o <<"-">> \o fmt_d(month(tp), 2) \o <<"-">>
            \o fmt_d(day(tp), 2) \o <<"T">> \o fmt_d(hour(tp), 2) \o <<":">>
            \o fmt_d(minute(tp), 2) \o <<":">> \o fmt_d(second(tp), 2)
        us == microsecond(tp)
        ps == picosecond(tp)
        subseconds_string == fmt_d(us, 6) \o fmt_d(ps, 6)
    IN  IF us = 0 /\ ps = 0
        THEN ymdhms_string
        ELSE ymdhms_string \o <<".">> \o trim(subseconds_string)

(* GPSTime(std::string_view datetime_string): the set of results it can    *)
(* have. The pattern is                                                    *)
(*   (\d{4}-\d{2}-\d{2})T(\d{2}:\d{2}:\d{2})(\.(\d{1,12}))?                *)
(* and a text that does not match is refused. For a text that matches,     *)
(* std::regex_match is called without the match_results, so that match[1], *)
(* match[2] and match[4] are read from an object that was never filled,    *)
(* which is undefined: the process is terminated, or sscanf reads no field *)
(* and every component stays 0, or it reads the date and time with an      *)
(* empty fraction, or it reads all the fields the text holds.              *)
GPSTimeFromString(s) ==
    LET head == /\ Len(s) >= 19
                /\ AllDigits(s, 1, 4) /\ s[5] = "-" /\ AllDigits(s, 6, 7)
                /\ s[8] = "-" /\ AllDigits(s, 9, 10)
                /\ s[11] = "T"
                /\ AllDigits(s, 12, 13) /\ s[14] = ":" /\ AllDigits(s, 15, 16)
                /\ s[17] = ":" /\ AllDigits(s, 18, 19)
        tail == \/ Len(s) = 19
                \/ /\ Len(s) >= 21 /\ Len(s) <= 32 /\ s[20] = "."
                   /\ AllDigits(s, 21, Len(s))
        ymd == sscanf3(s, 1, 4, "-", 2, 2)
        hms == sscanf3(s, 12, 2, ":", 2, 2)
        subseconds_string == zeropad(SubSeq(s, 21, Len(s)), 12)
        us == IF Len(s) > 20 THEN ValOf(subseconds_string, 1, 6) ELSE 0
        ps == IF Len(s) > 20 THEN ValOf(subseconds_string, 7, 6) ELSE 0
    IN  IF ~(head /\ tail) THEN {Thrown("invalid_argument")}
        ELSE { Thrown("terminated"),
               GPSTimeFromComponents(0, 0, 0, 0, 0, 0, 0, 0),
               GPSTimeFromComponents(ymd[1], ymd[2], ymd[3], hms[1], hms[2], hms[3], 0, 0),
               GPSTimeFromComponents(ymd[1], ymd[2], ymd[3], hms[1], hms[2], hms[3], us, ps) }

(* std::string(t) *)
GPSTimeConvertToString ==
    /\ t # <<>>
    /\ call \in {"GPSTime", "++t"}
    /\ str' = GPSTimeToString(t[1])
    /\ call' = "string"
    /\ UNCHANGED <<gpsvars, exc, args, dto, parsed, tdvars, cmpvars, opvars>>

(* GPSTime(str) *)
GPSTimeFromStringCall ==
    /\ call \in {"string", "edit", "literal"}
    /\ dto = <<>>
    /\ \E r \in GPSTimeFromString(str) :
          /\ ret' = r.val
          /\ exc' = r.exc
    /\ call' = "GPSTime_string"
    /\ UNCHANGED <<t, prev, arg, nops, args, dtvars, tdvars, cmpvars, opvars>>

NextGPSString ==
    \/ Construct
    \/ PreIncrement
    \/ GPSTimeConvertToString
    \/ DateTimeConstruct
    \/ ConvertToString
    \/ Edit
    \/ Literal
    \/ FromString
    \/ GPSTimeFromStringCall
    \/ Destroy

SpecGPSString == Init /\ [][NextGPSString]_vars

---------------------------------------------------------------------------
(* TimeDelta: the rounding family, on tick counts. The counts of the model *)
(* are small, so that no sum or difference leaves the 128-bit range.       *)

MaxTicks == 12

MaxPeriod == 5

(* abs(const TimeDelta&): std::chrono::abs *)
abs(d) == IF d >= 0 THEN d ELSE -d

(* operator%(const TimeDelta&, const TimeDelta&): lhs % rhs.count() *)
mod(lhs, rhs) == TRem(lhs, rhs)

(* As trunc, with the remainder of floored division *)
trunc_floored(dt, period) == dt - (dt % abs(period))

trunc(dt, period) == dt - mod(dt, period)

(* As floor, stepping down by period in place of abs(period) *)
floor_signed(dt, period) ==
    LET tt == trunc(dt, period)
    IN  IF tt <= dt THEN tt ELSE tt - period

floor(dt, period) ==
    LET tt == trunc(dt, period)
    IN  IF tt <= dt THEN tt ELSE tt - abs(period)

(* As ceil, stepping up also when trunc already equals dt *)
ceil_strict(dt, period) ==
    LET tt == trunc(dt, period)
    IN  IF tt > dt THEN tt ELSE tt + abs(period)

ceil(dt, period) ==
    LET tt == trunc(dt, period)
    IN  IF tt >= dt THEN tt ELSE tt + abs(period)

(* As round, with a halfway case always rounded up *)
round_half_up(dt, period) ==
    LET lower == floor(dt, period)
        upper == lower + abs(period)
    IN  IF dt - lower < upper - dt THEN lower ELSE upper

(* x & 1 of a two's complement integer *)
LowBit(x) == x % 2

(* As round, with the upper neighbour one period, not one abs(period), up *)
round_signed(dt, period) ==
    LET lower == floor(dt, period)
        upper == lower + period
        lower_diff == dt - lower
        upper_diff == upper - dt
    IN  IF lower_diff < upper_diff THEN lower
        ELSE IF upper_diff < lower_diff THEN upper
        ELSE IF LowBit(TDiv(lower, period)) # 0 THEN upper ELSE lower

round(dt, period) ==
    LET lower == floor(dt, period)
        upper == lower + abs(period)
        lower_diff == dt - lower
        upper_diff == upper - dt
    IN  IF lower_diff < upper_diff THEN lower
        ELSE IF upper_diff < lower_diff THEN upper
        ELSE IF LowBit(TDiv(lower, period)) # 0 THEN upper ELSE lower

Periods == (-MaxPeriod .. MaxPeriod) \ {0}

InitRound ==
    /\ GPSInit
    /\ DTInit
    /\ CmpInit
    /\ OpInit
    /\ rd \in -MaxTicks .. MaxTicks
    /\ rp \in Periods
    /\ res = [f \in Functions |-> <<>>]
    /\ res2 = [f \in Functions |-> <<>>]

First(f, v) ==
    /\ res[f] = <<>>
    /\ res' = [res EXCEPT ![f] = <<v>>]
    /\ UNCHANGED <<gpsvars, exc, call, args, dtvars, rd, rp, res2, cmpvars, opvars>>

Again(f, v) ==
    /\ res[f] # <<>>
    /\ res2[f] = <<>>
    /\ res2' = [res2 EXCEPT ![f] = <<v>>]
    /\ UNCHANGED <<gpsvars, exc, call, args, dtvars, rd, rp, res, cmpvars, opvars>>

Trunc == First("trunc", trunc(rd, rp))

Floor == First("floor", floor(rd, rp))

Ceil == First("ceil", ceil(rd, rp))

Round == First("round", round(rd, rp))

TruncAgain == res["trunc"] # <<>> /\ Again("trunc", trunc(res["trunc"][1], rp))

FloorAgain == res["floor"] # <<>> /\ Again("floor", floor(res["floor"][1], rp))

CeilAgain == res["ceil"] # <<>> /\ Again("ceil", ceil(res["ceil"][1], rp))

RoundAgain == res["round"] # <<>> /\ Again("round", round(res["round"][1], rp))

NextRound ==
    \/ Trunc
    \/ Floor
    \/ Ceil
    \/ Round
    \/ TruncAgain
    \/ FloorAgain
    \/ CeilAgain
    \/ RoundAgain

SpecRound == InitRound /\ [][NextRound]_vars

---------------------------------------------------------------------------
(* Comparison operators of DateTime and of GPSTime. *)

(* a comparison that answers at the first position where comp holds,       *)
(* without asking whether an earlier position already decided otherwise    *)
lexicographical_compare_any(a, b, comp) ==
    \E i \in 1 .. Len(a) :
        i <= Len(b) /\ (IF comp = "less" THEN a[i] < b[i] ELSE a[i] > b[i])

(* ranges::lexicographical_compare with ranges::less or ranges::greater:   *)
(* the first position where the arrays differ decides; equal arrays of     *)
(* equal length compare false                                              *)
lexicographical_compare(a, b, comp) ==
    LET differ == {i \in 1 .. Len(a) : i <= Len(b) /\ a[i] # b[i]}
    IN  IF differ = {}
        THEN Len(a) < Len(b)
        ELSE LET i == CHOOSE k \in differ : \A j \in differ : k <= j
             IN  IF comp = "less" THEN a[i] < b[i] ELSE a[i] > b[i]

(* operator==, !=, <, >, <=, >= of DateTime; == is ranges::equal *)
DateTimeCompare(lhs, rhs) ==
    LET eq == Len(lhs) = Len(rhs) /\ \A i \in 1 .. Len(lhs) : lhs[i] = rhs[i]
        lt == lexicographical_compare(lhs, rhs, "less")
        gt == lexicographical_compare(lhs, rhs, "greater")
    IN  [eq |-> eq, ne |-> ~eq, lt |-> lt, gt |-> gt, le |-> ~gt, ge |-> ~lt]

(* operator==, !=, <, >, <=, >= of GPSTime, on time_point_ *)
GPSTimeCompare(lhs, rhs) ==
    LET eq == lhs = rhs
        lt == RepLess(lhs, rhs)
        gt == RepLess(rhs, lhs)
    IN  [eq |-> eq, ne |-> ~eq, lt |-> lt, gt |-> gt, le |-> ~gt, ge |-> ~lt]

(* the GPSTime of the calendar fields of a DateTime *)
GPSTimeOf(c) ==
    GPSTimeFromComponents(c[1], c[2], c[3], c[4], c[5], c[6],
                          c[7] * 1000 + c[8], c[9] * 1000 + c[10])

CompareGrid ==
    LET dates  == { <<1, 1, 1>>, <<1979, 12, 31>>, <<1999, 12, 31>>, <<2000, 1, 1>>,
                    <<2000, 2, 29>>, <<9999, 12, 31>> }
        clocks == { <<0, 0, 0>>, <<0, 59, 59>>, <<23, 59, 59>> }
        subs   == { <<0, 0, 0, 0>>, <<0, 0, 0, 1>>, <<0, 0, 1, 0>>, <<0, 1, 0, 0>>,
                    <<1, 0, 0, 0>>, <<999, 999, 999, 999>> }
    IN  {g \o c \o u : g \in dates, c \in clocks, u \in subs}
            \cup { <<2000, 2, 30, 0, 0, 0, 0, 0, 0, 0>> }

(* DateTime t2(...) *)
DateTimeConstructOther ==
    /\ dto # <<>>
    /\ other = <<>>
    /\ call = "DateTime"
    /\ \E c \in CompareGrid :
          LET r == DateTimeFromComponents(c[1], c[2], c[3], c[4], c[5], c[6],
                                          c[7], c[8], c[9], c[10])
          IN  /\ r.exc = "none"
              /\ other' = r.val
    /\ UNCHANGED <<gpsvars, exc, call, args, dtvars, tdvars, cmp, code1, code2, result,
                   opvars>>

(* the six operators applied to (t1, t2) *)
CompareDateTime ==
    /\ dto # <<>>
    /\ other # <<>>
    /\ cmp = <<>>
    /\ cmp' = <<DateTimeCompare(dto[1], other[1])>>
    /\ call' = "DateTime_compare"
    /\ UNCHANGED <<gpsvars, exc, args, dtvars, tdvars, other, code1, code2, result,
                   opvars>>

(* GPSTime objects of the same calendar fields, and the six operators      *)
(* applied to them                                                         *)
CompareGPSTime ==
    /\ call = "DateTime_compare"
    /\ Len(cmp) = 1
    /\ LET a == GPSTimeOf(dto[1])
           b == GPSTimeOf(other[1])
       IN  /\ a.exc = "none"
           /\ b.exc = "none"
           /\ t' = a.val
           /\ arg' = b.val
           /\ cmp' = Append(cmp, GPSTimeCompare(a.val[1], b.val[1]))
    /\ call' = "GPSTime_compare"
    /\ UNCHANGED <<ret, exc, args, prev, nops, dtvars, tdvars, other, code1, code2, result,
                   opvars>>

NextCompare ==
    \/ DateTimeConstructFrom(CompareGrid)
    \/ DateTimeConstructOther
    \/ CompareDateTime
    \/ CompareGPSTime
    \/ Destroy

SpecCompare == Init /\ [][NextCompare]_vars

---------------------------------------------------------------------------
(* TimeDelta: division and remainder by an integer and by a TimeDelta. *)

InitDiv ==
    /\ GPSInit
    /\ DTInit
    /\ TDInit
    /\ CmpInit
    /\ td = <<>>
    /\ unit = "none"
    /\ cnt = <<>>
    /\ back = <<>>
    /\ flags = {}
    /\ out = <<>>
    /\ dd \in -MaxTicks .. MaxTicks
    /\ dn \in Periods
    /\ dres = [o \in DivOps |-> <<>>]

(* one of the operators applied to the TimeDelta of dd ticks (the compound *)
(* forms to a copy of it), v being the tick count of what it leaves        *)
Divide(o, v) ==
    /\ dres[o] = <<>>
    /\ dres' = [dres EXCEPT ![o] = <<v>>]
    /\ UNCHANGED <<gpsvars, exc, call, args, dtvars, tdvars, cmpvars,
                   td, unit, cnt, back, flags, out, dd, dn>>

NextDiv ==
    \/ Divide("/", TDiv(dd, dn))
    \/ Divide("%", TRem(dd, dn))
    \/ Divide("%dt", mod(dd, dn))
    \/ Divide("/=", TDiv(dd, dn))
    \/ Divide("%=", TRem(dd, dn))
    \/ Divide("%=dt", TRem(dd, dn))
    \/ /\ dres["/"] # <<>>
       /\ dres["%"] # <<>>
       /\ Divide("(d/n)*n+d%n", dres["/"][1] * dn + dres["%"][1])

SpecDiv == InitDiv /\ [][NextDiv]_vars

---------------------------------------------------------------------------
(* TimeDelta: construction from and conversion to std::chrono::duration,   *)
(* and the text written by operator<<.                                     *)

(* a construction that takes milliseconds for microseconds and back *)
TimeDeltaFromDuration_swapped(u, n) ==
    CASE u = "days" -> Days(n)
      [] u = "hours" -> Hours(n)
      [] u = "minutes" -> Minutes(n)
      [] u = "seconds" -> Seconds(n)
      [] u = "milliseconds" -> Microsecs(n)
      [] u = "microseconds" -> Norm(0, n, 0)
      [] u = "nanoseconds" -> Norm(0, n \div 1000000, (n % 1000000) * 1000)
      [] u = "picoseconds" -> Picosecs(n)
      [] u = "femtoseconds" -> Picosecs(TDiv(n, 1000))

(* TimeDelta(std::chrono::duration<T, unit>(n)) for an integral T, which   *)
(* the factories days(n) ... picoseconds(n) call: duration_cast multiplies *)
(* by the ratio of the periods, or divides by it for a finer unit, in the  *)
(* 128-bit Rep.                                                            *)
TimeDeltaFromDuration(u, n) ==
    CASE u = "days" -> Days(n)
      [] u = "hours" -> Hours(n)
      [] u = "minutes" -> Minutes(n)
      [] u = "seconds" -> Seconds(n)
      [] u = "milliseconds" -> Norm(0, n, 0)
      [] u = "microseconds" -> Microsecs(n)
      [] u = "nanoseconds" -> Norm(0, n \div 1000000, (n % 1000000) * 1000)
      [] u = "picoseconds" -> Picosecs(n)
      [] u = "femtoseconds" -> Picosecs(TDiv(n, 1000))

(* a conversion that rounds toward minus infinity *)
DurationCount_floor(rep, u) ==
    LET ms == rep.hi * MsPerDay + rep.mid
    IN  CASE u = "days" -> rep.hi
          [] u = "hours" -> rep.hi * 24 + rep.mid \div 3600000
          [] u = "minutes" -> rep.hi * 1440 + rep.mid \div 60000
          [] u = "seconds" -> ms \div 1000
          [] u = "milliseconds" -> ms
          [] u = "microseconds" -> ms * 1000 + rep.lo \div 1000000
          [] u = "nanoseconds" -> ms * 1000000 + rep.lo \div 1000
          [] u = "picoseconds" -> ms * PsPerMs + rep.lo

(* std::chrono::duration<T, unit>(dt).count() for an integral T:           *)
(* duration_cast divides the tick count by the ticks of the unit, which    *)
(* truncates toward zero.                                                  *)
DurationCount(rep, u) ==
    LET neg == rep.hi < 0
        a   == IF neg THEN RepNeg(rep) ELSE rep
        ms  == a.hi * MsPerDay + a.mid
        m   == CASE u = "days" -> a.hi
                 [] u = "hours" -> a.hi * 24 + a.mid \div 3600000
                 [] u = "minutes" -> a.hi * 1440 + a.mid \div 60000
                 [] u = "seconds" -> ms \div 1000
                 [] u = "milliseconds" -> ms
                 [] u = "microseconds" -> ms * 1000 + a.lo \div 1000000
                 [] u = "nanoseconds" -> ms * 1000000 + a.lo \div 1000
                 [] u = "picoseconds" -> ms * PsPerMs + a.lo
    IN  IF neg THEN -m ELSE m

(* a sign prefix that ignores the flags of the stream *)
SignPrefix_always(rep, fl) == IF RepLess(rep, Duration(0)) THEN <<"-">> ELSE <<"+">>

(* operator<<: the sign prefix *)
SignPrefix(rep, fl) ==
    IF RepLess(rep, Duration(0)) THEN <<"-">>
    ELSE IF "showpos" \in fl THEN <<"+">>
    ELSE <<>>

(* as Split, each field written when what is left reaches its unit *)
Split_remaining(a) ==
    LET d_txt == IF a.hi >= 1 THEN Dec(a.hi) \o <<"d">> ELSE <<>>
        h_on  == a.mid >= 3600000
        h_txt == IF h_on THEN Dec(a.mid \div 3600000) \o <<"h">> ELSE <<>>
        mid1  == IF h_on THEN a.mid % 3600000 ELSE a.mid
        m_on  == mid1 >= 60000
        m_txt == IF m_on THEN Dec(mid1 \div 60000) \o <<"m">> ELSE <<>>
        mid2  == IF m_on THEN mid1 % 60000 ELSE mid1
    IN  [text |-> d_txt \o h_txt \o m_txt, frac |-> [hi |-> 0, mid |-> mid2, lo |-> a.lo]]

(* operator<<: the days, hours and minutes fields of the magnitude a, and  *)
(* the ticks left over; each divmod(frac, unit.count()) is taken when a    *)
(* itself is at least the unit                                             *)
Split(a) ==
    LET d_txt == IF ~RepLess(a, Days(1)) THEN Dec(a.hi) \o <<"d">> ELSE <<>>
        h_on  == ~RepLess(a, Hours(1))
        h_txt == IF h_on THEN Dec(a.mid \div 3600000) \o <<"h">> ELSE <<>>
        mid1  == IF h_on THEN a.mid % 3600000 ELSE a.mid
        m_on  == ~RepLess(a, Minutes(1))
        m_txt == IF m_on THEN Dec(mid1 \div 60000) \o <<"m">> ELSE <<>>
        mid2  == IF m_on THEN mid1 % 60000 ELSE mid1
    IN  [text |-> d_txt \o h_txt \o m_txt, frac |-> [hi |-> 0, mid |-> mid2, lo |-> a.lo]]

(* the last field with each unit selected only above one of it: a          *)
(* magnitude of exactly one second is left to milliseconds                 *)
LastField_above(a, frac, fl) ==
    LET f == CASE RepLess(Seconds(1), a) ->
                    [whole |-> frac.mid \div 1000,
                     nz |-> frac.mid % 1000 # 0 \/ frac.lo # 0,
                     digits |-> fmt_d(frac.mid % 1000, 3) \o fmt_d(frac.lo, 9),
                     suffix |-> <<"s">>]
               [] ~RepLess(Seconds(1), a) /\ RepLess(Norm(0, 1, 0), a) ->
                    [whole |-> frac.mid, nz |-> frac.lo # 0,
                     digits |-> fmt_d(frac.lo, 9), suffix |-> <<"m", "s">>]
               [] ~RepLess(Norm(0, 1, 0), a) /\ RepLess(Microsecs(1), a) ->
                    [whole |-> frac.mid * 1000 + frac.lo \div 1000000,
                     nz |-> frac.lo % 1000000 # 0,
                     digits |-> fmt_d(frac.lo % 1000000, 6), suffix |-> <<"u", "s">>]
               [] ~RepLess(Microsecs(1), a) /\ RepLess(Picosecs(1000), a) ->
                    [whole |-> frac.lo \div 1000, nz |-> frac.lo % 1000 # 0,
                     digits |-> fmt_d(frac.lo % 1000, 3), suffix |-> <<"n", "s">>]
               [] OTHER ->
                    [whole |-> frac.lo, nz |-> FALSE, digits |-> <<>>, suffix |-> <<"p", "s">>]
    IN  Dec(f.whole)
        \o (IF f.nz THEN trim(<<".">> \o f.digits)
            ELSE IF "showpoint" \in fl THEN <<".", "0">> ELSE <<>>)
        \o f.suffix

(* operator<<: the last field, in the unit the magnitude a selects, of the *)
(* ticks frac left over: the whole part, then '.' and the fraction in the  *)
(* digits of the unit without trailing zeros, or ".0" under showpoint,     *)
(* then the suffix                                                         *)
LastField(a, frac, fl) ==
    LET f == CASE ~RepLess(a, Seconds(1)) ->
                    [whole |-> frac.mid \div 1000,
                     nz |-> frac.mid % 1000 # 0 \/ frac.lo # 0,
                     digits |-> fmt_d(frac.mid % 1000, 3) \o fmt_d(frac.lo, 9),
                     suffix |-> <<"s">>]
               [] RepLess(a, Seconds(1)) /\ ~RepLess(a, Norm(0, 1, 0)) ->
                    [whole |-> frac.mid, nz |-> frac.lo # 0,
                     digits |-> fmt_d(frac.lo, 9), suffix |-> <<"m", "s">>]
               [] RepLess(a, Norm(0, 1, 0)) /\ ~RepLess(a, Microsecs(1)) ->
                    [whole |-> frac.lo \div 1000000, nz |-> frac.lo % 1000000 # 0,
                     digits |-> fmt_d(frac.lo % 1000000, 6), suffix |-> <<"u", "s">>]
               [] RepLess(a, Microsecs(1)) /\ ~RepLess(a, Picosecs(1000)) ->
                    [whole |-> frac.lo \div 1000, nz |-> frac.lo % 1000 # 0,
                     digits |-> fmt_d(frac.lo % 1000, 3), suffix |-> <<"n", "s">>]
               [] OTHER ->
                    [whole |-> frac.lo, nz |-> FALSE, digits |-> <<>>, suffix |-> <<"p", "s">>]
    IN  Dec(f.whole)
        \o (IF f.nz THEN trim(<<".">> \o f.digits)
            ELSE IF "showpoint" \in fl THEN <<".", "0">> ELSE <<>>)
        \o f.suffix

(* counts handed to the constructor and the factories, by unit *)
DurationGrid ==
    ({"days"} \X {-2, -1, 0, 1, 2})
    \cup ({"hours"} \X {-25, -1, 1, 23, 24})
    \cup ({"minutes"} \X {-1, 1, 4, 59, 1440})
    \cup ({"seconds"} \X {-10, -1, 1, 10, 56, 754, 86400})
    \cup ({"milliseconds"} \X {-1500, -999, 1, 789, 1000, 169496789})
    \cup ({"microseconds"} \X {-1, 1, 12, 123456, 1000000})
    \cup ({"nanoseconds"} \X {-1, 1, 345, 1000, 1000000000})
    \cup ({"picoseconds"} \X {-1, 1, 123, 1230, 1000000000})
    \cup ({"femtoseconds"} \X {-1000, -999, 999, 1000, 1999})

(* TimeDelta(duration<T, unit>(n)), or TimeDelta::<unit>(n) *)
FromDuration ==
    /\ td = <<>>
    /\ \E g \in DurationGrid :
          /\ td' = <<TimeDeltaFromDuration(g[1], g[2])>>
          /\ unit' = g[1]
          /\ cnt' = <<g[2]>>
    /\ UNCHANGED <<gpsvars, exc, call, args, dtvars, tdvars, cmpvars,
                   back, flags, out, dd, dn, dres>>

(* dt + TimeDelta::<unit>(n) *)
Add ==
    /\ td # <<>>
    /\ cnt # <<>>
    /\ back = <<>>
    /\ out = <<>>
    /\ \E g \in DurationGrid : td' = <<RepAdd(td[1], TimeDeltaFromDuration(g[1], g[2]))>>
    /\ unit' = "none"
    /\ cnt' = <<>>
    /\ UNCHANGED <<gpsvars, exc, call, args, dtvars, tdvars, cmpvars,
                   back, flags, out, dd, dn, dres>>

(* std::chrono::duration<int, unit>(dt), for the units whose count of dt   *)
(* an int holds                                                            *)
ToDuration ==
    /\ td # <<>>
    /\ back = <<>>
    /\ out = <<>>
    /\ LET a  == IF td[1].hi < 0 THEN RepNeg(td[1]) ELSE td[1]
           ms == a.hi * MsPerDay + a.mid
       IN  \E u \in {"days", "hours", "minutes", "seconds", "milliseconds"}
                    \cup (IF ms < 2000000 THEN {"microseconds"} ELSE {})
                    \cup (IF ms < 2000 THEN {"nanoseconds"} ELSE {})
                    \cup (IF ms < 2 THEN {"picoseconds"} ELSE {}) :
              back' = <<[unit |-> u, count |-> DurationCount(td[1], u)]>>
    /\ UNCHANGED <<gpsvars, exc, call, args, dtvars, tdvars, cmpvars,
                   td, unit, cnt, flags, out, dd, dn, dres>>

(* os << dt, on a stream whose flags are fl *)
Insert ==
    /\ td # <<>>
    /\ back = <<>>
    /\ out = <<>>
    /\ \E fl \in SUBSET {"showpos", "showpoint"} :
          LET a == IF RepLess(td[1], Duration(0)) THEN RepNeg(td[1]) ELSE td[1]
              s == Split(a)
          IN  /\ flags' = fl
              /\ out' = SignPrefix(td[1], fl) \o s.text \o LastField(a, s.frac, fl)
    /\ UNCHANGED <<gpsvars, exc, call, args, dtvars, tdvars, cmpvars,
                   td, unit, cnt, back, dd, dn, dres>>

NextTimeDelta ==
    \/ FromDuration
    \/ Add
    \/ ToDuration
    \/ Insert

SpecTimeDelta == Init /\ [][NextTimeDelta]_vars

---------------------------------------------------------------------------
(* Every way of building an object that can refuse its input: from         *)
(* components, from a time point, from the clock and from text.            *)
NextConstruct ==
    \/ Construct
    \/ ConstructTimePoint
    \/ Now
    \/ DateTimeConstruct
    \/ ConvertToString
    \/ Edit
    \/ Literal
    \/ FromString
    \/ Destroy

SpecConstruct == Init /\ [][NextConstruct]_vars

---------------------------------------------------------------------------
(* GPSTime: arithmetic with TimeDelta and with a second GPSTime. *)

(* operator+(TimeDelta, GPSTime): a copy of rhs, then +=. The TimeDelta is *)
(* one of the operands above or the difference just computed.              *)
PlusCommuted ==
    /\ Alive
    /\ \E d \in DeltaArgs \cup {td[i] : i \in DOMAIN td} :
          ByValue("dt+t", Built(RepAdd(t[1], d)), <<d>>)

(* As Difference, with the operands of every subtraction exchanged *)
Difference_exchanged ==
    /\ Alive
    /\ \E o \in {"t-u", "u-t", "r-t"} :
          /\ call' = o
          /\ IF o = "r-t"
             THEN /\ call \in {"t+dt", "dt+t"} /\ ret # <<>>
                  /\ td' = <<RepSub(t[1], ret[1])>>
                  /\ arg' = arg
             ELSE \E tp \in TimePoints :
                     /\ GPSTimeFromTimePoint(tp).exc = "none"
                     /\ td' = <<IF o = "t-u" THEN RepSub(tp, t[1]) ELSE RepSub(t[1], tp)>>
                     /\ arg' = <<tp>>
    /\ exc' = "none"
    /\ nops' = nops + 1
    /\ UNCHANGED <<t, ret, prev, args, dtvars, tdvars, cmpvars,
                   unit, cnt, back, flags, out, dd, dn, dres>>

(* operator-(GPSTime, GPSTime): of the object t and a second object u      *)
(* holding tp, either way round, or of the sum just returned and t.        *)
Difference ==
    /\ Alive
    /\ \E o \in {"t-u", "u-t", "r-t"} :
          /\ call' = o
          /\ IF o = "r-t"
             THEN /\ call \in {"t+dt", "dt+t"} /\ ret # <<>>
                  /\ td' = <<RepSub(ret[1], t[1])>>
                  /\ arg' = arg
             ELSE \E tp \in TimePoints :
                     /\ GPSTimeFromTimePoint(tp).exc = "none"
                     /\ td' = <<IF o = "t-u" THEN RepSub(t[1], tp) ELSE RepSub(tp, t[1])>>
                     /\ arg' = <<tp>>
    /\ exc' = "none"
    /\ nops' = nops + 1
    /\ UNCHANGED <<t, ret, prev, args, dtvars, tdvars, cmpvars,
                   unit, cnt, back, flags, out, dd, dn, dres>>

NextArith ==
    \/ Construct
    \/ AddAssign
    \/ SubAssign
    \/ Plus
    \/ Minus
    \/ PlusCommuted
    \/ Difference

SpecArith == Init /\ [][NextArith]_vars

---------------------------------------------------------------------------
(* TimeDelta: abs and unary minus at the full width of Rep.                *)
(* An absl::int128 tick count is held as its 128 two's complement bits,    *)
(* bit 1 the least significant and bit 128 the sign.                       *)

(* As Negate, without the carry into the lowest bit *)
Negate_complement(b) ==
    {Built([i \in 1 .. 128 |-> 1 - b[i]])}

(* TimeDelta::operator-(): -duration_. Negating the most negative count    *)
(* overflows, which is undefined: the count wraps to itself or the process *)
(* is terminated.                                                          *)
Negate(b) ==
    LET set == {i \in 1 .. 128 : b[i] = 1}
        k == IF set = {} THEN 129 ELSE CHOOSE i \in set : \A j \in set : i <= j
        wrapped == [i \in 1 .. 128 |-> IF i <= k THEN b[i] ELSE 1 - b[i]]
    IN  IF set = {128} THEN {Built(wrapped), Thrown("terminated")}
        ELSE {Built(wrapped)}

(* abs(const TimeDelta&): std::chrono::abs(d) is d >= d.zero() ? d : -d *)
TimeDeltaAbs(b) ==
    IF b[128] = 0 THEN {Built(b)} ELSE Negate(b)

(* The tick counts abs is called with: zero, runs of one bits between the  *)
(* ends and the middle of the word (2^k, 2^k - 1, -2^k, the largest and    *)
(* the smallest count), and the same with the lowest bit set.              *)
InitAbs ==
    LET marks == {1, 2, 3, 64, 65, 127, 128}
        runs  == {[i \in 1 .. 128 |-> IF lo <= i /\ i <= hi THEN 1 ELSE 0] :
                      lo \in marks, hi \in marks \cup {0}}
    IN  /\ GPSInit /\ DTInit /\ TDInit /\ CmpInit
        /\ td \in {<<r>> : r \in runs \cup {[r EXCEPT ![1] = 1] : r \in runs}}
        /\ unit = "none" /\ cnt = <<>> /\ back = <<>> /\ flags = {} /\ out = <<>>
        /\ dd = 0 /\ dn = 1 /\ dres = [o \in DivOps |-> <<>>]

(* abs(dt), and after it abs(-dt) *)
Abs ==
    /\ \/ /\ call = "init"
          /\ call' = "abs"
          /\ arg' = td
          /\ \E r \in TimeDeltaAbs(td[1]) : ret' = r.val /\ exc' = r.exc
       \/ /\ call = "abs"
          /\ call' = "abs(-dt)"
          /\ \E n \in Negate(td[1]) :
                IF n.exc # "none"
                THEN arg' = <<>> /\ ret' = <<>> /\ exc' = n.exc
                ELSE /\ arg' = n.val
                     /\ \E r \in TimeDeltaAbs(n.val[1]) : ret' = r.val /\ exc' = r.exc
    /\ UNCHANGED <<t, args, prev, nops, dtvars, tdvars, cmpvars, opvars>>

SpecAbs == InitAbs /\ [][Abs]_vars

---------------------------------------------------------------------------
(* The error library: ErrorCode, ErrorCategory, Error and Expected<T>.     *)
(* An ErrorCode is [value, category], the category being the address of a  *)
(* category object, <<class, translation unit>>. An Error is [code]. An    *)
(* Expected is [has, value] or [has, error].                               *)

(* the error code enumerations and their enumerators *)
Enumerators ==
    { [enum |-> "DomainError", name |-> "DivisionByZero", value |-> 1],
      [enum |-> "OutOfRange", name |-> "OutOfBoundsAccess", value |-> 1],
      [enum |-> "RuntimeError", name |-> "BadExpectedAccess", value |-> 1] }

(* make_error_code(e), compiled in translation unit tu. Each category      *)
(* object is declared static in a header, so every translation unit has    *)
(* one of its own, and this function, inline with external linkage, names  *)
(* a different object in each of them, which is undefined: a call uses the *)
(* object of its own translation unit when it is inlined, and otherwise    *)
(* that of the translation unit whose copy the linker kept (the library).  *)
make_error_code(e, tu) ==
    {[value |-> e.value, category |-> <<e.enum, u>>] : u \in {tu, "library"}}

(* As ErrorCodeEqual, comparing the values alone *)
ErrorCodeEqual_value(lhs, rhs) ==
    lhs.value = rhs.value

(* operator==(const ErrorCode&, const ErrorCode&): equal values, and       *)
(* categories that are the same object                                     *)
ErrorCodeEqual(lhs, rhs) ==
    lhs.value = rhs.value /\ lhs.category = rhs.category

(* As throw_exception, throwing std::runtime_error whatever the category *)
throw_exception_runtime(error) ==
    "runtime_error"

(* Error::throw_exception(): the exception the category of the code throws *)
throw_exception(error) ==
    CASE error.code.category[1] = "DomainError" -> "domain_error"
      [] error.code.category[1] = "OutOfRange" -> "out_of_range"
      [] error.code.category[1] = "RuntimeError" -> "runtime_error"

(* A member of Expected<T> called on e, with the checks of NoValuePolicy *)
ExpectedAccess(e, member) ==
    CASE member \in {"has_value", "bool"} -> {Built(e.has = "value")}
      [] member = "has_error" -> {Built(e.has = "error")}
      [] member \in {"value", "*", "->"} ->
            IF e.has # "value" THEN {Thrown(throw_exception(e.error))}
            ELSE {Built(e.value)}
      [] member = "error" ->
            IF e.has # "error"
            THEN {Thrown(throw_exception([code |-> c])) :
                      c \in make_error_code(CHOOSE x \in Enumerators : x.enum = "RuntimeError",
                                            "client")}
            ELSE {Built(e.error)}

(* ErrorCode(ErrorCodeEnum e), for error_code1 or error_code2 *)
ConstructErrorCode ==
    /\ \E e \in Enumerators, tu \in {"library", "client"} :
          \E c \in make_error_code(e, tu) :
             \/ code1 = <<>> /\ code1' = <<c>> /\ code2' = code2
             \/ code2 = <<>> /\ code2' = <<c>> /\ code1' = code1
    /\ call' = "ErrorCode"
    /\ UNCHANGED <<gpsvars, exc, args, dtvars, tdvars, other, cmp, result, opvars>>

(* ErrorCode::operator=(ErrorCodeEnum e), on error_code1 *)
AssignErrorCode ==
    /\ code1 # <<>>
    /\ \E e \in Enumerators, tu \in {"library", "client"} :
          \E c \in make_error_code(e, tu) : code1' = <<c>>
    /\ call' = "ErrorCode="
    /\ UNCHANGED <<gpsvars, exc, args, dtvars, tdvars, other, cmp, code2, result, opvars>>

(* error_code1 == error_code2 and error_code1 != error_code2 *)
CompareErrorCode ==
    /\ code1 # <<>> /\ code2 # <<>>
    /\ cmp' = <<[eq |-> ErrorCodeEqual(code1[1], code2[1]),
                 ne |-> ~ErrorCodeEqual(code1[1], code2[1])]>>
    /\ call' = "ErrorCode_compare"
    /\ UNCHANGED <<gpsvars, exc, args, dtvars, tdvars, other, code1, code2, result, opvars>>

(* Expected<T>(value) and Expected<T>(error), as safe_divide returns them *)
ExpectedConstruct ==
    /\ \/ \E x \in {6, 123}, y \in {1, 3} :
             result' = <<[has |-> "value", value |-> TDiv(x, y)]>>
       \/ \E e \in Enumerators, tu \in {"library", "client"} :
             \E c \in make_error_code(e, tu) :
                result' = <<[has |-> "error", error |-> [code |-> c]]>>
    /\ call' = "Expected"
    /\ ret' = <<>>
    /\ exc' = "none"
    /\ UNCHANGED <<t, prev, arg, nops, args, dtvars, tdvars, other, cmp, code1, code2, opvars>>

(* has_value(), operator bool, has_error(), value(), operator*,            *)
(* operator-> and error() *)
Access ==
    /\ result # <<>>
    /\ \E member \in {"has_value", "bool", "has_error", "value", "*", "->", "error"} :
          /\ call' = member
          /\ \E r \in ExpectedAccess(result[1], member) : ret' = r.val /\ exc' = r.exc
    /\ UNCHANGED <<t, prev, arg, nops, args, dtvars, tdvars, cmpvars, opvars>>

NextError ==
    \/ ConstructErrorCode
    \/ AssignErrorCode
    \/ CompareErrorCode
    \/ ExpectedConstruct
    \/ Access

SpecError == Init /\ [][NextError]_vars

---------------------------------------------------------------------------
(* What the claims say of the calendar, stated apart from the code. *)

LeapYear(y) == y % 4 = 0 /\ (y % 100 # 0 \/ y % 400 = 0)

DaysInMonth(y, m) ==
    IF m = 2 THEN (IF LeapYear(y) THEN 29 ELSE 28)
    ELSE IF m \in {4, 6, 9, 11} THEN 30 ELSE 31

ValidDateClock(c) ==
    /\ c[1] \in 1 .. 9999
    /\ c[2] \in 1 .. 12
    /\ c[3] >= 1 /\ c[3] <= DaysInMonth(c[1], c[2])
    /\ c[4] \in 0 .. 23
    /\ c[5] \in 0 .. 59
    /\ c[6] \in 0 .. 59

ValidGPSComponents(c) ==
    ValidDateClock(c) /\ c[7] \in 0 .. 999999 /\ c[8] \in 0 .. 999999

ValidDateTimeComponents(c) ==
    ValidDateClock(c) /\ \A i \in 7 .. 10 : c[i] \in 0 .. 999

LexLess(a, b) ==
    \E i \in 1 .. Len(a) : a[i] < b[i] /\ \A j \in 1 .. (i - 1) : a[j] = b[j]

InRange(tp) ==
    /\ ~RepLess(tp, Norm(-722819, 0, 0))
    /\ ~RepLess(Norm(2929239, 86399999, 999999999), tp)

---------------------------------------------------------------------------
(* C1: a GPSTime built from a valid component tuple reads back, through    *)
(* year() ... picosecond(), exactly the tuple it was built from, before    *)
(* and after the 1980-01-06 epoch.                                         *)
C1_RoundTrip ==
    (call = "GPSTime" /\ exc = "none") =>
        /\ ValidGPSComponents(args)
        /\ Components(t[1]) = args

(* C1 witness: a valid instant before the epoch, with a time of day, built *)
C1_Witness ==
    /\ call = "GPSTime" /\ exc = "none" /\ t # <<>>
    /\ args = <<1900, 2, 28, 23, 59, 59, 999999, 999999>>

(* C2: construction from components succeeds exactly for the tuples whose  *)
(* fields are all in range; every other tuple throws invalid_argument and  *)
(* leaves no object.                                                       *)
C2_ConstructIffValid ==
    /\ call = "GPSTime" =>
          /\ (exc = "none") = ValidGPSComponents(args)
          /\ exc = "none" => t # <<>>
          /\ exc # "none" => exc = "invalid_argument" /\ t = <<>> /\ ret = <<>>
    /\ call = "DateTime" =>
          /\ (exc = "none") = ValidDateTimeComponents(args)
          /\ exc = "none" => dto = <<args>>
          /\ exc # "none" => exc = "invalid_argument" /\ dto = <<>>

(* C2 witness: a tuple whose only fault is the day (2001-02-29) is refused *)
C2_Witness ==
    /\ call = "GPSTime" /\ exc = "invalid_argument" /\ t = <<>>
    /\ args = <<2001, 2, 29, 23, 59, 59, 999999, 999999>>

(* C3: every GPSTime value, the object and whatever a call returned, lies  *)
(* within [0001-01-01T00:00:00, 9999-12-31T23:59:59.999999999999].         *)
C3_AlwaysInRange ==
    /\ t # <<>> => InRange(t[1])
    /\ ret # <<>> => InRange(ret[1])

(* C10: of two tick counts in the valid range, the smaller one has the     *)
(* lexicographically smaller component tuple. The pairs are the object     *)
(* before and after an operator, and the object and a second time point.   *)
Ordered(a, b) ==
    (InRange(a) /\ InRange(b)) =>
        /\ RepLess(a, b) => LexLess(Components(a), Components(b))
        /\ RepLess(b, a) => LexLess(Components(b), Components(a))

C10_Monotone ==
    /\ (call = "t<u") => Ordered(t[1], arg[1])
    /\ (prev # <<>> /\ t # <<>>) => Ordered(prev[1], t[1])
    /\ (prev # <<>> /\ ret # <<>>) => Ordered(prev[1], ret[1])

(* C10 witness: two counts one tick apart on either side of a year's end *)
C10_Witness ==
    /\ call = "--t" /\ prev # <<>> /\ t # <<>>
    /\ InRange(prev[1]) /\ InRange(t[1])
    /\ Components(prev[1]) = <<2001, 1, 1, 0, 0, 0, 0, 0>>
    /\ Components(t[1]) = <<2000, 12, 31, 23, 59, 59, 999999, 999999>>

(* The grammar of the text form: YYYY-MM-DD, 'T' or a space, hh:mm:ss and, *)
(* optionally, '.' with 1 to 12 digits; shape gives the class of every     *)
(* character: "d" a digit, anything else the character itself.             *)
Shape(k) ==
    <<"d", "d", "d", "d", "-", "d", "d", "-", "d", "d", "S",
      "d", "d", ":", "d", "d", ":", "d", "d">>
    \o (IF k = 0 THEN <<>> ELSE <<".">> \o [i \in 1 .. k |-> "d"])

Fits(s, shape) ==
    /\ Len(s) = Len(shape)
    /\ \A i \in 1 .. Len(s) :
          CASE shape[i] = "d" -> s[i] \in {"0", "1", "2", "3", "4", "5", "6", "7", "8", "9"}
            [] shape[i] = "S" -> s[i] = "T" \/ s[i] = " "
            [] OTHER -> s[i] = shape[i]

Grammar(s) == \E k \in 0 .. 12 : Fits(s, Shape(k))

(* C4: the text std::string(I) of a valid DateTime I parses, and the       *)
(* DateTime built from it equals I in all ten components.                  *)
C4_StringRoundTrip ==
    (call = "DateTime_string" /\ dto # <<>> /\ nops = 0) =>
        exc = "none" /\ parsed = dto

(* C4 witness: a value whose fraction is trimmed to fewer than 12 digits   *)
(* has been written and read back                                          *)
C4_Witness ==
    /\ call = "DateTime_string" /\ nops = 0 /\ parsed # <<>>
    /\ dto = <<(<<2020, 3, 20, 23, 50, 59, 0, 10, 0, 0>>)>>
    /\ Len(str) = 25

(* C5: a text that does not match the grammar as a whole is refused with   *)
(* invalid_argument and no DateTime is built.                              *)
C5_ParseRejects ==
    (call = "DateTime_string" /\ ~Grammar(str)) =>
        exc = "invalid_argument" /\ parsed = <<>>

(* C5 witness: a text with a 13-digit fraction has been refused *)
C5_Witness ==
    /\ call = "DateTime_string" /\ exc = "invalid_argument"
    /\ Len(str) = 33 /\ Fits(SubSeq(str, 1, 32), Shape(12)) /\ str[33] = "0"

(* Magnitude, multiples and the truncating remainder, as the claims use    *)
(* them.                                                                  *)
Magnitude(x) == IF x < 0 THEN -x ELSE x

IsMultiple(x, p) == Magnitude(x) % Magnitude(p) = 0

TruncRem(a, b) ==
    IF a < 0 THEN -(Magnitude(a) % Magnitude(b)) ELSE a % Magnitude(b)

(* C6: floor(d, p) is the greatest multiple of p not above d, ceil(d, p)   *)
(* the least multiple of p not below d, so floor(d, p) <= d <= ceil(d, p). *)
C6_FloorCeil ==
    /\ res["floor"] # <<>> =>
          LET f == res["floor"][1]
          IN  IsMultiple(f, rp) /\ f <= rd /\ rd - f < Magnitude(rp)
    /\ res["ceil"] # <<>> =>
          LET c == res["ceil"][1]
          IN  IsMultiple(c, rp) /\ c >= rd /\ c - rd < Magnitude(rp)
    /\ (res["floor"] # <<>> /\ res["ceil"] # <<>>) =>
          res["floor"][1] <= rd /\ rd <= res["ceil"][1]

(* C6 witness: -2.5 periods, with a negative period: floor is -3 periods   *)
(* and ceil -2 periods                                                     *)
C6_Witness ==
    /\ rd = -5 /\ rp = -2
    /\ res["floor"] = <<-6>> /\ res["ceil"] = <<-4>>

(* C7: round(d, p) is the multiple of p closest to d, and of two equally   *)
(* close multiples the one that is an even multiple of p.                  *)
C7_RoundHalfEven ==
    res["round"] # <<>> =>
        LET r == res["round"][1]
        IN  /\ IsMultiple(r, rp)
            /\ 2 * Magnitude(rd - r) <= Magnitude(rp)
            /\ 2 * Magnitude(rd - r) = Magnitude(rp) =>
                  (Magnitude(r) \div Magnitude(rp)) % 2 = 0

(* C7 witness: -3.5 periods is rounded to -4 periods *)
C7_Witness == rd = -7 /\ rp = 2 /\ res["round"] = <<-8>>

(* C8: trunc(d, p) is d less the truncating remainder of d by p: a         *)
(* multiple of p, of the sign of d or zero, no larger than d in magnitude  *)
(* and less than |p| away from d.                                          *)
C8_Trunc ==
    res["trunc"] # <<>> =>
        LET r == res["trunc"][1]
        IN  /\ r = rd - TruncRem(rd, rp)
            /\ IsMultiple(r, rp)
            /\ Magnitude(r) <= Magnitude(rd)
            /\ Magnitude(rd - r) < Magnitude(rp)
            /\ r = 0 \/ (r < 0) = (rd < 0)

(* C8 witness: -3.5 periods is truncated to -3 periods *)
C8_Witness == rd = -7 /\ rp = 2 /\ res["trunc"] = <<-6>>

(* C9: applying trunc, floor, ceil or round again, with the same period,   *)
(* to its own result returns that result.                                  *)
C9_Idempotent ==
    \A f \in Functions : res2[f] # <<>> => res2[f] = res[f]

(* C9 witness: a halfway case has been rounded, and the result rounded     *)
(* again                                                                   *)
C9_Witness ==
    /\ rd = 5 /\ rp = 2
    /\ res["round"] = <<4>> /\ res2["round"] # <<>>
    /\ res2["floor"] # <<>> /\ res2["ceil"] # <<>> /\ res2["trunc"] # <<>>

(* the tick order of the instants of two component arrays, computed from   *)
(* the calendar: days, then time of day, then the sub-second groups        *)
TicksOf(c) ==
    <<days_from_civil(c[1], c[2], c[3]),
      (c[4] * 60 + c[5]) * 60 + c[6],
      (c[7] * 1000 + c[8]) * 1000 + c[9],
      c[10]>>

Thirds ==
    { <<1, 1, 1, 0, 0, 0, 0, 0, 0, 0>>, <<1999, 12, 31, 23, 59, 59, 999, 999, 999, 999>>,
      <<2000, 1, 1, 0, 0, 0, 0, 0, 0, 1>>, <<2000, 1, 1, 0, 0, 0, 0, 1, 0, 0>>,
      <<2000, 2, 29, 0, 59, 59, 1, 0, 0, 0>>, <<9999, 12, 31, 23, 59, 59, 999, 999, 999, 999>> }

(* C11: for two valid instants A and B, each of ==, !=, <, >, <=, >= on    *)
(* the DateTime values answers as the same operator on the GPSTime values  *)
(* of the same fields; exactly one of <, ==, > holds, <= and >= are their  *)
(* unions, the order agrees with the order of the instants, and it is      *)
(* transitive through any third instant.                                   *)
C11_CompareAgree ==
    (call = "GPSTime_compare" /\ Len(cmp) = 2) =>
        LET d == cmp[1]
            g == cmp[2]
            A == dto[1]
            B == other[1]
        IN  /\ d = g
            /\ (IF d.lt THEN 1 ELSE 0) + (IF d.eq THEN 1 ELSE 0) + (IF d.gt THEN 1 ELSE 0) = 1
            /\ d.ne = ~d.eq
            /\ d.le = (d.lt \/ d.eq)
            /\ d.ge = (d.gt \/ d.eq)
            /\ d.eq = (A = B)
            /\ d.lt = LexLess(TicksOf(A), TicksOf(B))
            /\ g.lt = LexLess(TicksOf(A), TicksOf(B))
            /\ \A C \in Thirds :
                  /\ (d.lt /\ DateTimeCompare(B, C).lt) => DateTimeCompare(A, C).lt
                  /\ (g.lt /\ GPSTimeCompare(arg[1], GPSTimeOf(C).val[1]).lt)
                        => GPSTimeCompare(t[1], GPSTimeOf(C).val[1]).lt

(* C11 witness: two instants whose first differing component and a later   *)
(* component disagree in direction have been compared both ways            *)
C11_Witness ==
    /\ call = "GPSTime_compare" /\ Len(cmp) = 2
    /\ dto = << <<1999, 12, 31, 23, 59, 59, 999, 999, 999, 999>> >>
    /\ other = << <<2000, 1, 1, 0, 0, 0, 0, 0, 0, 0>> >>
    /\ cmp[1].lt /\ cmp[2].lt /\ ~cmp[1].ge

(* C12: with every other field valid, a day of at least 1 is accepted      *)
(* exactly when it does not exceed 29 for February of a year divisible by  *)
(* 4 and not by 100, or divisible by 400, 28 for any other February, 30    *)
(* for April, June, September and November, and 31 for every other month;  *)
(* (2000, 2, 29) is accepted, and (1900, 2, 29), (2001, 2, 29),            *)
(* (2000, 2, 30) and (2000, 4, 31) are rejected.                           *)
C12_LastDayOfMonth ==
    (call \in {"GPSTime", "DateTime"}) =>
        LET y == args[1]
            m == args[2]
            d == args[3]
            last == IF m = 2
                    THEN (IF y % 4 = 0 /\ (y % 100 # 0 \/ y % 400 = 0) THEN 29 ELSE 28)
                    ELSE IF m \in {4, 6, 9, 11} THEN 30 ELSE 31
            rest == /\ y \in 1 .. 9999 /\ m \in 1 .. 12 /\ d >= 1
                    /\ args[4] \in 0 .. 23 /\ args[5] \in 0 .. 59 /\ args[6] \in 0 .. 59
                    /\ IF call = "GPSTime"
                       THEN args[7] \in 0 .. 999999 /\ args[8] \in 0 .. 999999
                       ELSE \A i \in 7 .. 10 : args[i] \in 0 .. 999
            ymd == <<y, m, d>>
        IN  /\ rest => ((exc = "none") = (d <= last))
            /\ (rest /\ d > last) => exc = "invalid_argument"
            /\ (rest /\ ymd = <<2000, 2, 29>>) => exc = "none"
            /\ ymd \in { <<1900, 2, 29>>, <<2001, 2, 29>>, <<2000, 2, 30>>, <<2000, 4, 31>> }
                  => exc = "invalid_argument"

(* C12 witness: 29 February of a century year that is not a leap year has  *)
(* been refused although every other field is valid                        *)
C12_Witness ==
    /\ call = "DateTime" /\ exc = "invalid_argument" /\ dto = <<>>
    /\ args = <<1900, 2, 29, 0, 0, 0, 0, 0, 0, 0>>

(* The number a run of decimal digits denotes. *)
RECURSIVE Num(_)
Num(ds) ==
    IF ds = <<>> THEN 0
    ELSE Num(SubSeq(ds, 1, Len(ds) - 1)) * 10
         + (CHOOSE v \in 0 .. 9 : <<"0", "1", "2", "3", "4", "5", "6", "7", "8", "9">>[v + 1]
                                      = ds[Len(ds)])

(* s is the text of with nothing but the separator at position 11 replaced *)
OnlySeparatorDiffers(s, of) ==
    /\ Len(s) = Len(of)
    /\ Len(s) >= 19
    /\ s[11] # "T"
    /\ \A i \in 1 .. Len(s) : i # 11 => s[i] = of[i]

(* C13: the text of an instant with its 'T' replaced by a single space     *)
(* parses to the same instant, for DateTime and for GPSTime alike, and     *)
(* with its 'T' replaced by any other character it is refused with         *)
(* invalid_argument.                                                       *)
C13_Separator ==
    /\ (call = "DateTime_string" /\ dto # <<>>
            /\ OnlySeparatorDiffers(str, DateTimeToString(dto[1]))) =>
          IF str[11] = " "
          THEN exc = "none" /\ parsed = dto
          ELSE exc = "invalid_argument" /\ parsed = <<>>
    /\ (call = "GPSTime_string" /\ t # <<>> /\ InRange(t[1])
            /\ OnlySeparatorDiffers(str, GPSTimeToString(t[1]))) =>
          IF str[11] = " "
          THEN exc = "none" /\ ret = t
          ELSE exc = "invalid_argument" /\ ret = <<>>

(* the 12 digits of a fraction of 0 to 12 digits, zeros appended *)
Padded(frac) == frac \o [i \in 1 .. (12 - Len(frac)) |-> "0"]

(* date and time fields a text of the grammar spells *)
SpelledDateClock(s) ==
    <<Num(SubSeq(s, 1, 4)), Num(SubSeq(s, 6, 7)), Num(SubSeq(s, 9, 10)),
      Num(SubSeq(s, 12, 13)), Num(SubSeq(s, 15, 16)), Num(SubSeq(s, 18, 19))>>

(* C14: a text of the grammar that spells a valid date and time parses,    *)
(* and its fraction of k digits, right-padded with zeros to 12 digits, is  *)
(* read in groups of 3+3+3+3 digits into millisecond, microsecond,         *)
(* nanosecond and picosecond of a DateTime, and in groups of 6+6 digits    *)
(* into microsecond and picosecond of a GPSTime; without a fraction every  *)
(* sub-second group is zero.                                               *)
C14_FractionPadding ==
    LET p == Padded(SubSeq(str, 21, Len(str)))
    IN  /\ (call = "DateTime_string" /\ Grammar(str) /\ ValidDateClock(SpelledDateClock(str))) =>
              /\ exc = "none"
              /\ parsed # <<>>
              /\ parsed[1][7] = Num(SubSeq(p, 1, 3))
              /\ parsed[1][8] = Num(SubSeq(p, 4, 6))
              /\ parsed[1][9] = Num(SubSeq(p, 7, 9))
              /\ parsed[1][10] = Num(SubSeq(p, 10, 12))
        /\ (call = "GPSTime_string" /\ Grammar(str) /\ str[11] = "T"
                /\ ValidDateClock(SpelledDateClock(str))) =>
              /\ exc = "none"
              /\ ret # <<>>
              /\ microsecond(ret[1]) = Num(SubSeq(p, 1, 6))
              /\ picosecond(ret[1]) = Num(SubSeq(p, 7, 12))

(* the string form the claim describes, of date and time fields f and the  *)
(* 12 sub-second digits sub                                                *)
StringForm(s, f, sub) ==
    LET nz == {i \in 1 .. 12 : sub[i] # "0"}
        k  == IF nz = {} THEN 0 ELSE CHOOSE i \in nz : \A j \in nz : j <= i
    IN  /\ Len(s) >= 19
        /\ Fits(SubSeq(s, 1, 19), Shape(0))
        /\ s[11] = "T"
        /\ SpelledDateClock(s) = f
        /\ IF k = 0 THEN Len(s) = 19
           ELSE /\ Len(s) = 20 + k
                /\ s[20] = "."
                /\ SubSeq(s, 21, 20 + k) = SubSeq(sub, 1, k)
                /\ k \in 1 .. 12
                /\ s[Len(s)] # "0"
                /\ s[Len(s)] # "."

(* the digits of n in exactly w places *)
RECURSIVE Places(_, _)
Places(n, w) ==
    IF w = 0 THEN <<>>
    ELSE Places(n \div 10, w - 1)
         \o << <<"0", "1", "2", "3", "4", "5", "6", "7", "8", "9">>[(n % 10) + 1] >>

(* C15: the text written for an instant is YYYY-MM-DDThh:mm:ss, the year   *)
(* in 4 digits and the other fields in 2, followed by nothing when every   *)
(* sub-second group is zero and otherwise by '.' and the 12 sub-second     *)
(* digits without their trailing zeros: 1 to 12 digits, the last one not   *)
(* '0'.                                                                    *)
C15_StringForm ==
    (call = "string") =>
        IF dto # <<>>
        THEN StringForm(str, SubSeq(dto[1], 1, 6),
                        Places(dto[1][7], 3) \o Places(dto[1][8], 3)
                        \o Places(dto[1][9], 3) \o Places(dto[1][10], 3))
        ELSE StringForm(str, SubSeq(Components(t[1]), 1, 6),
                        Places(microsecond(t[1]), 6) \o Places(picosecond(t[1]), 6))

(* C16: for a TimeDelta d and a nonzero integer n, (d / n) * n + (d % n)   *)
(* is d; d / n is the quotient truncated toward zero; d % n is zero or has *)
(* the sign of d, and is smaller than n in magnitude; d % other for the    *)
(* TimeDelta other of n ticks is d % n; and /= and %= leave what / and %   *)
(* return.                                                                 *)
C16_DivMod ==
    LET q == dres["/"]
        r == dres["%"]
    IN  /\ dres["(d/n)*n+d%n"] # <<>> => dres["(d/n)*n+d%n"] = <<dd>>
        /\ q # <<>> =>
              /\ Magnitude(q[1] * dn) <= Magnitude(dd)
              /\ Magnitude(dd - q[1] * dn) < Magnitude(dn)
              /\ (dd >= 0 /\ q[1] * dn >= 0) \/ (dd <= 0 /\ q[1] * dn <= 0)
        /\ r # <<>> =>
              /\ Magnitude(r[1]) < Magnitude(dn)
              /\ r[1] = 0 \/ (r[1] > 0) = (dd > 0)
              /\ IsMultiple(dd - r[1], dn)
        /\ (dres["%dt"] # <<>> /\ r # <<>>) => dres["%dt"] = r
        /\ (dres["%=dt"] # <<>> /\ r # <<>>) => dres["%=dt"] = r
        /\ (dres["%="] # <<>> /\ r # <<>>) => dres["%="] = r
        /\ (dres["/="] # <<>> /\ q # <<>>) => dres["/="] = q

(* C16 witness: a negative duration has been divided by a positive         *)
(* integer that does not divide it: -7 by 2 gives -3 and leaves -1         *)
C16_Witness ==
    /\ dd = -7 /\ dn = 2
    /\ dres["/"] = <<-3>> /\ dres["%"] = <<-1>>
    /\ dres["(d/n)*n+d%n"] = <<-7>>
    /\ dres["/="] # <<>> /\ dres["%="] # <<>> /\ dres["%dt"] # <<>>

(* A tick count as <<milliseconds, picoseconds of the millisecond>>, the   *)
(* second between 0 and 10^9 - 1.                                          *)
MsPs(rep) == <<rep.hi * 86400000 + rep.mid, rep.lo>>

(* n units in ticks, in the same form: n times 86400e12, 3600e12, 60e12,   *)
(* 1e12, 1e9, 1e6, 1e3 or 1.                                               *)
ExactTicks(u, n) ==
    CASE u = "days" -> <<n * 86400000, 0>>
      [] u = "hours" -> <<n * 3600000, 0>>
      [] u = "minutes" -> <<n * 60000, 0>>
      [] u = "seconds" -> <<n * 1000, 0>>
      [] u = "milliseconds" -> <<n, 0>>
      [] u = "microseconds" -> <<n \div 1000, (n % 1000) * 1000000>>
      [] u = "nanoseconds" -> <<n \div 1000000, (n % 1000000) * 1000>>
      [] u = "picoseconds" -> <<n \div 1000000000, n % 1000000000>>

(* C17: a TimeDelta built from an integer count n of days, hours, minutes, *)
(* seconds, milliseconds, microseconds, nanoseconds or picoseconds holds   *)
(* exactly n times the ticks of the unit; days(1), hours(24),              *)
(* minutes(1440) and seconds(86400) are the same TimeDelta, and so are     *)
(* seconds(1), milliseconds(1000), microseconds(10^6) and                  *)
(* nanoseconds(10^9), and milliseconds(1) and picoseconds(10^9).           *)
C17_ExactFactories ==
    (td # <<>> /\ cnt # <<>> /\ unit # "femtoseconds") =>
        LET g == <<unit, cnt[1]>>
        IN  /\ MsPs(td[1]) = ExactTicks(unit, cnt[1])
            /\ g \in { <<"days", 1>>, <<"hours", 24>>, <<"minutes", 1440>>,
                       <<"seconds", 86400>> }
                  => td[1] = [hi |-> 1, mid |-> 0, lo |-> 0]
            /\ g \in { <<"seconds", 1>>, <<"milliseconds", 1000>>,
                       <<"microseconds", 1000000>>, <<"nanoseconds", 1000000000>> }
                  => td[1] = [hi |-> 0, mid |-> 1000, lo |-> 0]
            /\ g \in { <<"milliseconds", 1>>, <<"picoseconds", 1000000000>> }
                  => td[1] = [hi |-> 0, mid |-> 1, lo |-> 0]

(* C17 witness: hours(24) has been built and is one day of ticks *)
C17_Witness ==
    /\ unit = "hours" /\ cnt = <<24>>
    /\ td = <<[hi |-> 1, mid |-> 0, lo |-> 0]>>

(* C18: the count of a TimeDelta in a unit is the quotient truncated       *)
(* toward zero, for negative as for positive values; a TimeDelta built     *)
(* from femtoseconds holds the count divided by 1000 and truncated toward  *)
(* zero, so that 999 fs and -999 fs give 0 ticks; and a count converted to *)
(* a TimeDelta and back to its unit is the count again.                    *)
C18_Truncation ==
    /\ back # <<>> =>
          LET m == back[1].count
              u == back[1].unit
              v == MsPs(td[1])
          IN  IF td[1].hi >= 0
              THEN /\ m >= 0
                   /\ ~LexLess(v, ExactTicks(u, m))
                   /\ LexLess(v, ExactTicks(u, m + 1))
              ELSE /\ m <= 0
                   /\ LexLess(ExactTicks(u, m - 1), v)
                   /\ ~LexLess(ExactTicks(u, m), v)
    /\ (td # <<>> /\ cnt # <<>> /\ unit = "femtoseconds") =>
          LET ps == MsPs(td[1])[1] * 1000000000 + MsPs(td[1])[2]
          IN  /\ Magnitude(ps * 1000) <= Magnitude(cnt[1])
              /\ Magnitude(cnt[1] - ps * 1000) < 1000
              /\ cnt[1] \in {999, -999} => ps = 0
    /\ (back # <<>> /\ cnt # <<>> /\ back[1].unit = unit) => back[1].count = cnt[1]

(* C18 witness: -1500 ms has been converted to seconds and gave -1 *)
C18_Witness ==
    /\ unit = "milliseconds" /\ cnt = <<-1500>>
    /\ back = <<[unit |-> "seconds", count |-> -1]>>

DigitChars == {"0", "1", "2", "3", "4", "5", "6", "7", "8", "9"}

(* the length of the run of digits of s that starts at pos *)
DigitsAt(s, pos) ==
    LET K == {k \in 0 .. (Len(s) - pos + 1) : \A i \in pos .. (pos + k - 1) : s[i] \in DigitChars}
    IN  CHOOSE k \in K : \A j \in K : j <= k

(* a leading field N<letter> of s that another number follows, if any *)
Field(s, letter) ==
    LET k == DigitsAt(s, 1)
    IN  IF k >= 1 /\ Len(s) >= k + 2 /\ s[k + 1] = letter /\ s[k + 2] \in DigitChars
        THEN [on |-> TRUE, val |-> Num(SubSeq(s, 1, k)), rest |-> SubSeq(s, k + 2, Len(s))]
        ELSE [on |-> FALSE, val |-> 0, rest |-> s]

(* the fields a written TimeDelta shows: days, hours, minutes, then the    *)
(* whole part, the fraction digits and the suffix of the last field        *)
Written(s) ==
    LET b  == IF s # <<>> /\ s[1] \in {"-", "+"} THEN Tail(s) ELSE s
        d  == Field(b, "d")
        h  == Field(d.rest, "h")
        m  == Field(h.rest, "m")
        r  == m.rest
        k  == DigitsAt(r, 1)
        kf == IF Len(r) > k /\ r[k + 1] = "." THEN DigitsAt(r, k + 2) ELSE 0
        e  == IF Len(r) > k /\ r[k + 1] = "." THEN k + 1 + kf ELSE k
    IN  [d |-> d, h |-> h, m |-> m, whole |-> Num(SubSeq(r, 1, k)),
         frac |-> SubSeq(r, k + 2, k + 1 + kf), suffix |-> SubSeq(r, e + 1, Len(r))]

(* what the written fields add up to, as <<milliseconds, picoseconds>> *)
WrittenTicks(w) ==
    LET pad(n) == w.frac \o [i \in 1 .. (n - Len(w.frac)) |-> "0"]
        last == CASE w.suffix = <<"s">> ->
                        <<w.whole * 1000 + Num(SubSeq(pad(12), 1, 3)), Num(SubSeq(pad(12), 4, 12))>>
                  [] w.suffix = <<"m", "s">> -> <<w.whole, Num(pad(9))>>
                  [] w.suffix = <<"u", "s">> -> <<0, w.whole * 1000000 + Num(pad(6))>>
                  [] w.suffix = <<"n", "s">> -> <<0, w.whole * 1000 + Num(pad(3))>>
                  [] w.suffix = <<"p", "s">> -> <<0, w.whole>>
                  [] OTHER -> <<-1, -1>>
    IN  <<w.d.val * 86400000 + w.h.val * 3600000 + w.m.val * 60000 + last[1], last[2]>>

(* the magnitude of the TimeDelta at hand, as <<milliseconds, picoseconds>> *)
MagnitudeTicks == MsPs(IF td[1].hi < 0 THEN RepNeg(td[1]) ELSE td[1])

C20_SignAsStated ==
    out # <<>> =>
        /\ (out[1] = "-") = (td[1].hi < 0)
        /\ (out[1] = "+") = (td[1].hi >= 0 /\ MagnitudeTicks # <<0, 0>> /\ "showpos" \in flags)

(* C20 amended: a leading '-' is written exactly when the duration is      *)
(* negative, a leading '+' exactly when the duration is zero or positive   *)
(* and the stream has showpos set, and no sign character otherwise.        *)
C20_Sign ==
    out # <<>> =>
        /\ (out[1] = "-") = (td[1].hi < 0)
        /\ (out[1] = "+") = (td[1].hi >= 0 /\ "showpos" \in flags)
        /\ out[1] \in DigitChars \cup {"-", "+"}
        /\ \A i \in 2 .. Len(out) : out[i] \notin {"-", "+"}

(* C20 witness: a zero duration has been written under showpos *)
C20_Witness ==
    /\ td = <<[hi |-> 0, mid |-> 0, lo |-> 0]>>
    /\ "showpos" \in flags
    /\ out = <<"+", "0", "p", "s">>

---------------------------------------------------------------------------
Constructors == {"GPSTime", "GPSTime_time_point", "now", "DateTime", "DateTime_string"}

(* C21 as stated: every constructor that refuses its input, whatever the   *)
(* reason (a component out of range, a malformed text, an instant outside  *)
(* the valid range), throws invalid_argument and nothing else.             *)
C21_OneErrorKind ==
    call \in Constructors => exc \in {"none", "invalid_argument"}

(* C21 amended: construction from components and from text refuses its     *)
(* input with invalid_argument; construction from a time point refuses an  *)
(* instant outside the valid range with out_of_range, and refuses nothing  *)
(* else; no constructor throws anything else.                              *)
C21_ErrorKinds ==
    /\ call \in {"GPSTime", "DateTime", "DateTime_string"} =>
          exc \in {"none", "invalid_argument"}
    /\ call = "DateTime_string" =>
          (exc = "invalid_argument") = (parsed = <<>>)
    /\ call \in {"GPSTime_time_point", "now"} =>
          /\ exc \in {"none", "out_of_range"}
          /\ (exc = "out_of_range") = ~InRange(arg[1])
          /\ exc = "out_of_range" => t = <<>> /\ ret = <<>>
          /\ exc = "none" => t = arg

(* C21 witness: one tick past 9999-12-31T23:59:59.999999999999 is handed   *)
(* to the constructor from a time point, which throws out_of_range         *)
C21_Witness ==
    /\ call = "GPSTime_time_point" /\ exc = "out_of_range" /\ t = <<>>
    /\ arg = <<Norm(2929240, 0, 0)>>

---------------------------------------------------------------------------
(* C22: arithmetic on instants is exact. For a valid GPSTime t, a second   *)
(* one u and a TimeDelta dt, with results in range: dt + t returns what    *)
(* t + dt returned; (t + dt) - t is dt; t + (u - t) is u; u - t is         *)
(* -(t - u); t -= dt after t += dt restores t; and                         *)
(* 2000-01-02T03:04:05.000006000007 plus 12 d 34 min 56 s 78 us 90 ps is   *)
(* 2000-01-14T03:39:01.000084000097, by any of the three additions.        *)
C22_Arithmetic ==
    /\ [][ /\ (call = "t+dt" /\ call' = "dt+t" /\ arg' = arg) => ret' = ret
           /\ (call \in {"t+dt", "dt+t"} /\ call' = "r-t" /\ InRange(ret[1])) => td' = arg
           /\ (call = "u-t" /\ call' = "dt+t" /\ arg' = td) => ret' = arg
           /\ (call = "t-u" /\ call' = "u-t" /\ arg' = arg) => td' = <<RepNeg(td[1])>>
           /\ (call = "t+=dt" /\ call' = "t-=dt" /\ arg' = arg /\ InRange(t[1])) => t' = prev
         ]_vars
    /\ [](( /\ call \in {"t+dt", "dt+t", "t+=dt"}
            /\ Components(prev[1]) = <<2000, 1, 2, 3, 4, 5, 6, 7>>
            /\ arg = <<Norm(12, 2096000, 78000090)>> )
          => Components(ret[1]) = <<2000, 1, 14, 3, 39, 1, 84, 97>>)

(* C22 witness: 12 d 34 min 56 s 78 us 90 ps was added in place to         *)
(* 2000-01-02T03:04:05.000006000007 and then subtracted in place again     *)
C22_Witness ==
    /\ call = "t-=dt" /\ arg = <<Norm(12, 2096000, 78000090)>>
    /\ Components(prev[1]) = <<2000, 1, 14, 3, 39, 1, 84, 97>>
    /\ Components(t[1]) = <<2000, 1, 2, 3, 4, 5, 6, 7>>

---------------------------------------------------------------------------
(* C23: prefix ++ and -- move the object by one tick and return the        *)
(* updated instant; postfix ++ and -- return the instant as it was before  *)
(* the call and move the object by one tick as well; decrementing          *)
(* 2001-01-01T00:00:00 leaves a picosecond component of 999999.            *)
C23_IncrementDecrement ==
    /\ call = "++t" => t = <<RepAdd(prev[1], Duration(1))>> /\ ret = t
    /\ call = "--t" => t = <<RepSub(prev[1], Duration(1))>> /\ ret = t
    /\ (call = "t++" /\ exc = "none") =>
          t = <<RepAdd(prev[1], Duration(1))>> /\ ret = prev
    /\ (call = "t--" /\ exc = "none") =>
          t = <<RepSub(prev[1], Duration(1))>> /\ ret = prev
    /\ (call \in {"--t", "t--"} /\ Components(prev[1]) = <<2001, 1, 1, 0, 0, 0, 0, 0>>) =>
          picosecond(t[1]) = 999999

---------------------------------------------------------------------------
(* the calendar date after y-m-d *)
NextDate(y, m, d) ==
    IF d < DaysInMonth(y, m) THEN <<y, m, d + 1>>
    ELSE IF m < 12 THEN <<y, m + 1, 1>> ELSE <<y + 1, 1, 1>>

(* the weekdays the tests name, 0 = Sunday ... 6 = Saturday *)
Anchored(y, m, d, w) ==
    /\ <<y, m, d>> = <<1970, 1, 1>> => w = 4
    /\ <<y, m, d>> = <<1969, 12, 31>> => w = 3
    /\ <<y, m, d>> = <<1920, 2, 29>> => w = 0
    /\ <<y, m, d>> = <<1920, 3, 1>> => w = 1
    /\ <<y, m, d>> = <<2021, 4, 3>> => w = 6

(* C24: weekday() is one of seven values, depends on the calendar date     *)
(* alone (a GPSTime at any time of its day answers what a DateTime of that *)
(* date answers), is one more (mod 7) on the following day, across month   *)
(* ends, year ends and 29 February, and makes 1970-01-01 a Thursday,       *)
(* 1969-12-31 a Wednesday, 1920-02-29 a Sunday, 1920-03-01 a Monday and    *)
(* 2021-04-03 a Saturday.                                                  *)
C24_Weekday ==
    /\ (call = "GPSTime" /\ exc = "none") =>
          LET w == weekday(t[1])
          IN  /\ w \in 0 .. 6
              /\ w = Weekday(args[1], args[2], args[3])
              /\ Anchored(args[1], args[2], args[3], w)
              /\ InRange(RepAdd(t[1], Days(1))) =>
                    weekday(RepAdd(t[1], Days(1))) = (w + 1) % 7
    /\ (call = "DateTime" /\ exc = "none") =>
          LET c == dto[1]
              w == Weekday(c[1], c[2], c[3])
              n == NextDate(c[1], c[2], c[3])
          IN  /\ w \in 0 .. 6
              /\ Anchored(c[1], c[2], c[3], w)
              /\ n[1] <= 9999 => Weekday(n[1], n[2], n[3]) = (w + 1) % 7

(* C24 witness: the last instant of 1969-12-31, a Wednesday, has been      *)
(* built as a GPSTime                                                      *)
C24_Witness ==
    /\ call = "GPSTime" /\ exc = "none"
    /\ args = <<1969, 12, 31, 23, 59, 59, 999999, 999999>>
    /\ weekday(t[1]) = 3

---------------------------------------------------------------------------
(* the 128-bit sum of two tick counts: a carry enters bit i when some bit   *)
(* below it makes one and every bit between passes it on                   *)
CarryInto(a, b, i) ==
    IF \E j \in 1 .. (i - 1) :
           /\ a[j] + b[j] = 2
           /\ \A k \in (j + 1) .. (i - 1) : a[k] + b[k] >= 1
    THEN 1 ELSE 0

Sum128(a, b) == [i \in 1 .. 128 |-> (a[i] + b[i] + CarryInto(a, b, i)) % 2]

IsMin128(b) == b = [i \in 1 .. 128 |-> IF i = 128 THEN 1 ELSE 0]

(* C25: for every tick count but the most negative one, abs(dt) is not     *)
(* negative, is dt when dt >= 0 and is the count that cancels dt when      *)
(* dt < 0, and abs(-dt) is abs(dt); for the most negative count no         *)
(* non-negative answer comes back, its negation not being representable.   *)
C25_Abs ==
    /\ []((call = "abs" /\ ~IsMin128(td[1])) =>
             /\ exc = "none"
             /\ ret[1][128] = 0
             /\ td[1][128] = 0 => ret = td
             /\ td[1][128] = 1 => Sum128(ret[1], td[1]) = [i \in 1 .. 128 |-> 0])
    /\ []((call = "abs" /\ IsMin128(td[1])) => (exc # "none" \/ ret[1][128] = 1))
    /\ [][(call = "abs" /\ call' = "abs(-dt)" /\ ~IsMin128(td[1])) =>
             (exc' = "none" /\ ret' = ret)]_vars

(* C25 witness: abs of the most negative count but one is the largest      *)
(* count, and abs of the negation has been taken as well                   *)
C25_Witness ==
    /\ call = "abs(-dt)" /\ exc = "none"
    /\ td = <<[i \in 1 .. 128 |-> IF i \in {1, 128} THEN 1 ELSE 0]>>
    /\ ret = <<[i \in 1 .. 128 |-> IF i = 128 THEN 0 ELSE 1]>>

---------------------------------------------------------------------------
(* the enumeration an ErrorCode or an Error belongs to *)
CategoryOf(c) == c.category[1]

(* C26: an Expected holds a value or an Error, one of the two;             *)
(* has_value() and operator bool answer that it holds a value and          *)
(* has_error() answers the opposite; value(), operator* and operator->     *)
(* return the value when there is one and otherwise throw the exception of *)
(* the error's category (std::domain_error for a DomainError,              *)
(* std::out_of_range for an OutOfRange); error() throws std::runtime_error *)
(* when a value is held and returns the error otherwise.                   *)
C26_Expected ==
    result # <<>> =>
        LET e == result[1]
        IN  /\ e.has \in {"value", "error"}
            /\ DOMAIN e = (IF e.has = "value" THEN {"has", "value"} ELSE {"has", "error"})
            /\ call \in {"has_value", "bool"} => exc = "none" /\ ret = <<e.has = "value">>
            /\ call = "has_error" => exc = "none" /\ ret = <<e.has # "value">>
            /\ (call \in {"value", "*", "->"} /\ e.has = "value") =>
                  exc = "none" /\ ret = <<e.value>>
            /\ (call \in {"value", "*", "->"} /\ e.has = "error") =>
                  /\ ret = <<>>
                  /\ CategoryOf(e.error.code) = "DomainError" => exc = "domain_error"
                  /\ CategoryOf(e.error.code) = "OutOfRange" => exc = "out_of_range"
                  /\ exc \in {"domain_error", "out_of_range", "runtime_error"}
            /\ (call = "error" /\ e.has = "value") => exc = "runtime_error" /\ ret = <<>>
            /\ (call = "error" /\ e.has = "error") => exc = "none" /\ ret = <<e.error>>

(* C26 witness: value() was called on an Expected that holds an OutOfRange *)
(* error and threw std::out_of_range                                       *)
C26_Witness ==
    /\ call = "value" /\ exc = "out_of_range" /\ ret = <<>>
    /\ result # <<>> /\ result[1].has = "error"
    /\ CategoryOf(result[1].error.code) = "OutOfRange"

(* C27: two ErrorCode objects compare equal exactly when they carry the    *)
(* same integer value and the same error category; a code built or         *)
(* assigned from an enumerator carries the enumerator's value and the      *)
(* category of its enumeration, so that codes of the same enumerator are   *)
(* equal wherever they were built, while DomainError::DivisionByZero and   *)
(* OutOfRange::OutOfBoundsAccess, both of value 1, are unequal.            *)
C27_ErrorCodeEquality ==
    /\ \A c \in {code1, code2} :
          c # <<>> => \E e \in Enumerators : c[1].value = e.value /\ CategoryOf(c[1]) = e.enum
    /\ call = "ErrorCode_compare" =>
          /\ cmp[1].eq = (/\ code1[1].value = code2[1].value
                          /\ CategoryOf(code1[1]) = CategoryOf(code2[1]))
          /\ cmp[1].ne = ~cmp[1].eq

---------------------------------------------------------------------------
(* C28: a text of the grammar that spells a field out of range (year 0000, *)
(* month 00 or 13, day 00 or past the month's last day, hour 24, minute    *)
(* 60, second 60) is refused with invalid_argument, as the constructor     *)
(* from components refuses those fields, and no DateTime is built; a       *)
(* DateTime that is built holds the fields as they are spelled.            *)
C28_ParseValidates ==
    (call = "DateTime_string" /\ Grammar(str)) =>
        LET f == SpelledDateClock(str)
        IN  /\ ~ValidDateClock(f) => exc = "invalid_argument" /\ parsed = <<>>
            /\ exc = DateTimeFromComponents(f[1], f[2], f[3], f[4], f[5], f[6], 0, 0, 0, 0).exc
            /\ parsed # <<>> => SubSeq(parsed[1], 1, 6) = f

(* C28 witness: "2001-02-03T24:00:00" has been refused *)
C28_Witness ==
    /\ call = "DateTime_string" /\ exc = "invalid_argument" /\ parsed = <<>>
    /\ Grammar(str) /\ SpelledDateClock(str) = <<2001, 2, 3, 24, 0, 0>>

---------------------------------------------------------------------------
(* the suffix of the largest unit that does not exceed the magnitude mg,   *)
(* given as <<milliseconds, picoseconds>>, and whether mg is a whole       *)
(* number of that unit                                                     *)
UnitOf(mg) ==
    CASE mg[1] >= 1000 -> [suffix |-> <<"s">>, integral |-> mg[1] % 1000 = 0 /\ mg[2] = 0]
      [] mg[1] \in 1 .. 999 -> [suffix |-> <<"m", "s">>, integral |-> mg[2] = 0]
      [] mg[1] = 0 /\ mg[2] >= 1000000 ->
            [suffix |-> <<"u", "s">>, integral |-> mg[2] % 1000000 = 0]
      [] mg[1] = 0 /\ mg[2] \in 1000 .. 999999 ->
            [suffix |-> <<"n", "s">>, integral |-> mg[2] % 1000 = 0]
      [] OTHER -> [suffix |-> <<"p", "s">>, integral |-> TRUE]

---------------------------------------------------------------------------
(* C30: trunc, floor, ceil and round depend only on the magnitude of the   *)
(* period: each result for the duration rd and the period rp is the result *)
(* for rd and -rp, the choice round makes on an exact tie included.        *)
C30_PeriodSign ==
    /\ res["trunc"] # <<>> => res["trunc"][1] = trunc(rd, -rp)
    /\ res["floor"] # <<>> => res["floor"][1] = floor(rd, -rp)
    /\ res["ceil"] # <<>> => res["ceil"][1] = ceil(rd, -rp)
    /\ res["round"] # <<>> => res["round"][1] = round(rd, -rp)

(* C30 witness: 3 has been rounded four ways to a period of -2, a tie for  *)
(* round, with the results of a period of 2                                *)
C30_Witness ==
    /\ rd = 3 /\ rp = -2
    /\ res["trunc"] = <<2>> /\ res["floor"] = <<2>>
    /\ res["ceil"] = <<4>> /\ res["round"] = <<4>>
    /\ round(3, 2) = 4

====
